---- MODULE Spec2Model ----
(***************************************************************************)
(* Word-level caption synchronisation of reddit-tiktok-automation:         *)
(*   - BidirectionalTextNormalizer (src/processors/text_normalizer.py)     *)
(*   - the word-timing reconciliation and the video job of VideoGenerator  *)
(*     (src/generators/video_generator.py)                                 *)
(* Texts are strings; offsets are 0-based as in the Python source and a    *)
(* slice s[a:b] is Slice(s, a, b).  Times are seconds as exact fractions    *)
(* (the source's floats, without rounding).                                *)
(***************************************************************************)
EXTENDS Integers, Sequences, FiniteSets, TLC

VARIABLES
    npc,            \* normalizer run: "input", "normalized", "renormalized"
    original_text,  \* the text handed to process_for_sync
    normalized,     \* NormalizedText returned by process_for_sync(original_text)
    renormalized,   \* NormalizedText of process_for_sync(normalized.tts_text)
    rpc,                 \* reconciliation: "input", "done"
    reconcile_text,      \* the tts_text to be timed
    reconcile_duration,  \* the duration of the audio, in seconds
    reconcile_anchors,   \* what the recognizer supplied
    reconcile_timings,   \* the word timings returned
    reconcile_path,      \* the branch that produced them
    jpc,            \* video job: "idle", "done"
    job,            \* the call and the outcomes of its external steps
    job_result,     \* the VideoResult returned and the files left behind
    processed_text_cache,  \* web_app.processed_text_cache: audio filename -> entry
    audio_files,           \* the audio files written so far, by name
    web_response,          \* the last request's response and what its job used
    backend,            \* the timing backend of the process
    library_available,  \* its library could be imported (XXX_AVAILABLE)
    librosa_available,  \* librosa can be imported (WhisperXFallback)
    model_loaded,       \* the instance's _model_loaded
    align_calls,        \* align operations called so far
    load_attempts,      \* calls of the library's model loader so far
    models_loaded,      \* models the loader has returned so far
    load_failed,        \* some call of the loader has failed
    align_result,       \* what the last align operation did
    web_job_pc,     \* per web job: "idle", "start", "synthesized", "failed", "done"
    web_job_audio,  \* per web job: the audio filename its synthesis returned
    web_job_entry,  \* per web job: the cache entry its synthesis stored
    web_job_video,  \* per web job: the response of its generate-video request
    tpc,            \* TTS call: "idle" or "done"
    tts_engine,     \* TTSEngine: the providers loaded and the system voices
    tts_call,       \* the synthesis call made
    tts_attempts,   \* the attempts synthesize_with_fallback made, in order
    tts_result      \* the TTSResult it returned

normalize_vars == <<npc, original_text, normalized, renormalized>>

reconcile_vars == <<rpc, reconcile_text, reconcile_duration, reconcile_anchors,
                    reconcile_timings, reconcile_path>>

job_vars == <<jpc, job, job_result>>

web_vars == <<processed_text_cache, audio_files, web_response>>

backend_vars == <<backend, library_available, librosa_available, model_loaded,
                  align_calls, load_attempts, models_loaded, load_failed, align_result>>

web_job_vars == <<web_job_pc, web_job_audio, web_job_entry, web_job_video>>

tts_vars == <<tpc, tts_engine, tts_call, tts_attempts, tts_result>>

vars == <<normalize_vars, reconcile_vars, job_vars, web_vars, backend_vars,
          web_job_vars, tts_vars>>

(***************************************************************************)
(* Bounds                                                                  *)
(***************************************************************************)
\* the longest input text, in vocabulary tokens
MaxTokens == 3

\* the most segments the recognizer reports for one audio
MaxSegments == 2

\* the most word-level anchors handed to the alignment
MaxAnchors == 3

\* align operations called in one process
MaxAlignCalls == 3

(***************************************************************************)
(* Strings                                                                 *)
(***************************************************************************)
Min(a, b) == IF a <= b THEN a ELSE b

Max(a, b) == IF a >= b THEN a ELSE b

\* the element of a one-element set: The({e : x \in {v}}) is e with x naming
\* the value of v, computed once (a local variable of the source)
The(S) == CHOOSE x \in S : TRUE

\* the least element of a non-empty set of integers
MinOf(S) == CHOOSE x \in S : \A y \in S : x <= y

At(s, i) == IF i >= 1 /\ i <= Len(s) THEN SubSeq(s, i, i) ELSE ""

\* Python's s[a:b] for 0 <= a, 0 <= b (indices past the end are clamped)
Slice(s, a, b) == SubSeq(s, a + 1, Min(b, Len(s)))

UpperLetters == "ABCDEFGHIJKLMNOPQRSTUVWXYZ"

LowerLetters == "abcdefghijklmnopqrstuvwxyz"

DigitChars == {"0", "1", "2", "3", "4", "5", "6", "7", "8", "9"}

UpperChars == {At(UpperLetters, k) : k \in 1..26}

LowerChars == {At(LowerLetters, k) : k \in 1..26}

WordChars == UpperChars \cup LowerChars \cup DigitChars \cup {"_"}

IsDigit(c) == c \in DigitChars

\* \w of the re module (ASCII range)
IsWordChar(c) == c \in WordChars

LowerChar(c) ==
    IF c \in UpperChars
    THEN At(LowerLetters, CHOOSE k \in 1..26 : At(UpperLetters, k) = c)
    ELSE c

UpperChar(c) ==
    IF c \in LowerChars
    THEN At(UpperLetters, CHOOSE k \in 1..26 : At(LowerLetters, k) = c)
    ELSE c

RECURSIVE ToLower(_)
\* str.lower()
ToLower(s) ==
    IF Len(s) <= 1 THEN LowerChar(s)
    ELSE The({ToLower(a) \o ToLower(b) :
              <<a, b>> \in {<<SubSeq(s, 1, Len(s) \div 2),
                              SubSeq(s, Len(s) \div 2 + 1, Len(s))>>}})

\* sub in s
Contains(s, sub) ==
    \E i \in 1..(Len(s) - Len(sub) + 1) : SubSeq(s, i, i + Len(sub) - 1) = sub

Whitespace == {" ", "\t", "\n"}

RECURSIVE RunLen(_, _, _)
\* the length of the maximal run of characters of the class at index i
RunLen(s, i, class) ==
    IF At(s, i) \in class /\ At(s, i) # "" THEN 1 + RunLen(s, i + 1, class) ELSE 0

RECURSIVE RunLenNot(_, _, _)
\* the length of the maximal run of characters outside the class at index i
RunLenNot(s, i, class) ==
    IF At(s, i) \notin class /\ At(s, i) # "" THEN 1 + RunLenNot(s, i + 1, class) ELSE 0

RECURSIVE SplitFrom(_, _)
SplitFrom(s, i) ==
    The({IF b > Len(s) THEN <<>>
         ELSE The({<<SubSeq(s, b, e - 1)>> \o SplitFrom(s, e) :
                   e \in {b + RunLenNot(s, b, Whitespace)}}) :
         b \in {i + RunLen(s, i, Whitespace)}})

\* str.split(): the maximal runs of non-whitespace characters, in order
Split(s) == The({SplitFrom(text, 1) : text \in {s}})

\* \b at the 0-based offset p of s (between s[p-1] and s[p])
WordBoundary(s, p) == IsWordChar(At(s, p)) # IsWordChar(At(s, p + 1))

(***************************************************************************)
(* The patterns of the normalizer.  Each XxxMatchLen(s, i) is the length   *)
(* of the regex match that starts at the 1-based index i of s, 0 if none.  *)
(***************************************************************************)
\* r'\((\d{1,2}[MFmf])\)'
AgeGenderMatchLen(s, i) ==
    IF At(s, i) # "(" \/ ~IsDigit(At(s, i + 1)) THEN 0
    ELSE IF IsDigit(At(s, i + 2)) /\ At(s, i + 3) \in {"M", "F", "m", "f"}
            /\ At(s, i + 4) = ")" THEN 5
    ELSE IF At(s, i + 2) \in {"M", "F", "m", "f"} /\ At(s, i + 3) = ")" THEN 4
    ELSE 0

\* greedy \d{1,3} at i: the number of digits taken (0: no match)
DigitRun3(s, i) ==
    IF ~IsDigit(At(s, i)) THEN 0
    ELSE IF ~IsDigit(At(s, i + 1)) THEN 1
    ELSE IF ~IsDigit(At(s, i + 2)) THEN 2
    ELSE 3

RECURSIVE ThousandsLen(_, _)
\* greedy (?:,\d{3})* at i: the number of characters taken
ThousandsLen(s, i) ==
    IF At(s, i) = "," /\ IsDigit(At(s, i + 1)) /\ IsDigit(At(s, i + 2))
       /\ IsDigit(At(s, i + 3))
    THEN 4 + ThousandsLen(s, i + 4)
    ELSE 0

\* greedy (?:\.\d{2})? at i
CentsLen(s, i) ==
    IF At(s, i) = "." /\ IsDigit(At(s, i + 1)) /\ IsDigit(At(s, i + 2))
    THEN 3 ELSE 0

\* r'\$(\d{1,3}(?:,\d{3})*(?:\.\d{2})?)'
CurrencyMatchLen(s, i) ==
    IF At(s, i) # "$" \/ DigitRun3(s, i + 1) = 0 THEN 0
    ELSE LET d == DigitRun3(s, i + 1)
             t == ThousandsLen(s, i + 1 + d)
         IN  1 + d + t + CentsLen(s, i + 1 + d + t)

\* rf'\b{re.escape(lit)}\b'
LiteralWordMatchLen(lit, s, i) ==
    IF SubSeq(s, i, Min(i + Len(lit) - 1, Len(s))) = lit
       /\ WordBoundary(s, i - 1) /\ WordBoundary(s, i - 1 + Len(lit))
    THEN Len(lit) ELSE 0

\* a pattern is a record: [kind |-> "age_gender"], [kind |-> "currency"] or
\* [kind |-> "literal", lit |-> word]
MatchLen(pat, s, i) ==
    CASE pat.kind = "age_gender" -> AgeGenderMatchLen(s, i)
      [] pat.kind = "currency"   -> CurrencyMatchLen(s, i)
      [] pat.kind = "literal"    -> LiteralWordMatchLen(pat.lit, s, i)

RECURSIVE FindIterFrom(_, _, _)
\* the scan of finditer from the 1-based index i: the leftmost index >= i at
\* which the pattern matches, then on from the end of that match
FindIterFrom(pat, s, i) ==
    The({IF hits = {} THEN <<>>
         ELSE The({<<[start |-> j - 1, end |-> j - 1 + n]>>
                   \o FindIterFrom(pat, s, j + n) :
                   <<j, n>> \in {<<MinOf(hits), MatchLen(pat, s, MinOf(hits))>>}}) :
         hits \in {{h \in i..Len(s) : MatchLen(pat, s, h) > 0}}})

\* re.finditer(pattern, s): the non-overlapping matches, left to right, as
\* 0-based [start, end) spans
FindIter(pat, s) == The({FindIterFrom(pat, text, 1) : text \in {s}})

(***************************************************************************)
(* BidirectionalTextNormalizer                                             *)
(***************************************************************************)
TextMapping(orig, tts, ostart, oend, tstart, tend, type) ==
    [original_text |-> orig, tts_text |-> tts,
     original_start |-> ostart, original_end |-> oend,
     tts_start |-> tstart, tts_end |-> tend,
     transformation_type |-> type]

\* self.reddit_abbreviations, in the order of the dict literal
reddit_abbreviations ==
    << <<"AITA", "Am I the asshole">>, <<"YTA", "You're the asshole">>,
       <<"NTA", "Not the asshole">>, <<"ESH", "Everyone sucks here">>,
       <<"NAH", "No assholes here">>, <<"TIFU", "Today I fucked up">>,
       <<"TL;DR", "Too long didn't read">>, <<"ETA", "Edited to add">>,
       <<"IIRC", "If I recall correctly">>, <<"AFAIK", "As far as I know">>,
       <<"IMO", "In my opinion">>, <<"IMHO", "In my humble opinion">>,
       <<"TBH", "To be honest">>, <<"IDK", "I don't know">>,
       <<"IRL", "In real life">>, <<"DM", "Direct message">>,
       <<"PM", "Private message">>, <<"OP", "Original poster">>,
       <<"SO", "Significant other">>, <<"BF", "Boyfriend">>,
       <<"GF", "Girlfriend">>, <<"MIL", "Mother in law">>,
       <<"FIL", "Father in law">>, <<"SIL", "Sister in law">>,
       <<"BIL", "Brother in law">> >>

\* the ordinals dict of _transform_numbers, in the order of the dict literal
ordinals ==
    << <<"1st", "first">>, <<"2nd", "second">>, <<"3rd", "third">>,
       <<"4th", "fourth">>, <<"5th", "fifth">>, <<"6th", "sixth">>,
       <<"7th", "seventh">>, <<"8th", "eighth">>, <<"9th", "ninth">>,
       <<"10th", "tenth">>, <<"11th", "eleventh">>, <<"12th", "twelfth">>,
       <<"13th", "thirteenth">>, <<"14th", "fourteenth">>, <<"15th", "fifteenth">>,
       <<"16th", "sixteenth">>, <<"17th", "seventeenth">>, <<"18th", "eighteenth">>,
       <<"19th", "nineteenth">>, <<"20th", "twentieth">>,
       <<"21st", "twenty-first">>, <<"22nd", "twenty-second">>,
       <<"23rd", "twenty-third">>, <<"24th", "twenty-fourth">>,
       <<"25th", "twenty-fifth">>, <<"30th", "thirtieth">> >>

age_indicators ==
    {"sister", "brother", "friend", "roommate", "coworker",
     "boyfriend", "girlfriend", "husband", "wife", "partner",
     "son", "daughter", "parent", "mother", "father",
     "years old", "age", "born", "birthday"}

\* _is_age_context: some indicator occurs anywhere in the lower-cased text
IsAgeContext(text) ==
    \E text_lower \in {ToLower(text)} :
        \E indicator \in age_indicators : Contains(text_lower, indicator)

RECURSIVE SubstituteFrom(_, _, _, _)
SubstituteFrom(s, reps, k, pos) ==
    IF k > Len(reps) THEN Slice(s, pos, Len(s))
    ELSE Slice(s, pos, reps[k].start) \o reps[k].repl
         \o SubstituteFrom(s, reps, k + 1, reps[k].end)

\* re.sub: s with each span [start, end) of reps (left to right) replaced by repl
Substitute(s, reps) ==
    The({SubstituteFrom(text, spans, 1, 0) : <<text, spans>> \in {<<s, reps>>}})

RECURSIVE AdjustFrom(_, _, _)
AdjustFrom(mappings, k, offset) ==
    IF k > Len(mappings) THEN <<>>
    ELSE LET m  == mappings[k]
             ts == m.tts_start + offset
         IN  <<[m EXCEPT !.tts_start = ts, !.tts_end = ts + Len(m.tts_text)]>>
             \o AdjustFrom(mappings, k + 1,
                           offset + Len(m.tts_text) - Len(m.original_text))

\* "Adjust TTS positions based on cumulative length changes": the loop that
\* follows re.sub in _transform_age_gender and _transform_currency
AdjustTtsPositions(mappings) == The({AdjustFrom(ms, 1, 0) : ms \in {mappings}})

\* replace_age_gender(match): "(28F)" -> "28 female", "(30m)" -> "30 male"
AgeGenderReplacement(matched) ==
    LET age_gender == Slice(matched, 1, Len(matched) - 1)
        age        == Slice(age_gender, 0, Len(age_gender) - 1)
        gender     == UpperChar(At(age_gender, Len(age_gender)))
    IN  IF gender = "M" THEN age \o " male" ELSE age \o " female"

\* replace_currency(match): "$50" -> "50 dollars"
CurrencyReplacement(matched) == Slice(matched, 1, Len(matched)) \o " dollars"

\* the replacement callback of the pass of the given kind
Replacement(kind, matched) ==
    IF kind = "age_gender" THEN AgeGenderReplacement(matched)
    ELSE CurrencyReplacement(matched)

\* the mappings the replacement callback of re.sub records, one per match,
\* before the adjustment loop
SubMappings(text, kind) ==
    The({[k \in 1..Len(matches) |->
            LET matched == Slice(text, matches[k].start, matches[k].end)
                repl    == Replacement(kind, matched)
            IN  TextMapping(matched, repl,
                            matches[k].start, matches[k].end,
                            matches[k].start, matches[k].start + Len(repl),
                            kind)] :
         matches \in {FindIter([kind |-> kind], text)}})

\* the spans re.sub replaces and the callback's return values
SubReplacements(text, kind) ==
    The({[k \in 1..Len(matches) |->
            [start |-> matches[k].start, end |-> matches[k].end,
             repl |-> Replacement(kind, Slice(text, matches[k].start, matches[k].end))]] :
         matches \in {FindIter([kind |-> kind], text)}})

\* the substitution made whatever the context
TransformAgeGenderUnguarded(text) ==
    [text |-> Substitute(text, SubReplacements(text, "age_gender")),
     mappings |-> AdjustTtsPositions(SubMappings(text, "age_gender"))]

\* _transform_age_gender(text, original) -> [text, mappings]
TransformAgeGender(text) ==
    IF IsAgeContext(text)
    THEN [text |-> Substitute(text, SubReplacements(text, "age_gender")),
          mappings |-> AdjustTtsPositions(SubMappings(text, "age_gender"))]
    ELSE [text |-> text, mappings |-> <<>>]

\* _transform_currency(text, original) -> [text, mappings]
TransformCurrency(text) ==
    [text |-> Substitute(text, SubReplacements(text, "currency")),
     mappings |-> AdjustTtsPositions(SubMappings(text, "currency"))]

RECURSIVE ReplaceReversed(_, _, _, _, _, _)
\* "for match in reversed(matches)": record the mapping at the match's offsets
\* in the text being rewritten, then splice the replacement in
ReplaceReversed(st, matches, k, word, repl, type) ==
    IF k = 0 THEN st
    ELSE LET m == matches[k]
         IN  The({ReplaceReversed(next, matches, k - 1, word, repl, type) :
                  next \in {[text |-> Slice(st.text, 0, m.start) \o repl
                                      \o Slice(st.text, m.end, Len(st.text)),
                             mappings |-> Append(st.mappings,
                                 TextMapping(word, repl, m.start, m.end,
                                             m.start, m.start + Len(repl), type))]}})

\* one turn of the loop over a dictionary: every match of the entry's word in
\* the text as rewritten so far
ReplaceEntry(st, entry, type) ==
    The({ReplaceReversed(st, matches, Len(matches), entry[1], entry[2], type) :
         matches \in {FindIter([kind |-> "literal", lit |-> entry[1]], st.text)}})

RECURSIVE ReplaceEntries(_, _, _, _)
\* the loop over the (word, replacement) entries k.. of a dictionary, in order
\* (next names the state after entry k, computed before the loop goes on)
ReplaceEntries(st, entries, k, type) ==
    IF k > Len(entries) THEN st
    ELSE The({ReplaceEntries(next, entries, k + 1, type) :
              next \in {ReplaceEntry(st, entries[k], type)}})

RECURSIVE SortedByLenFrom(_, _)
SortedByLenFrom(entries, n) ==
    IF n = 0 THEN <<>>
    ELSE SelectSeq(entries, LAMBDA e : Len(e[1]) = n) \o SortedByLenFrom(entries, n - 1)

\* sorted(items, key=lambda x: len(x[0]), reverse=True): stable, longest first
sorted_abbrevs == SortedByLenFrom(reddit_abbreviations, 5)

\* _transform_abbreviations(text, original) -> [text, mappings]
TransformAbbreviations(text) ==
    ReplaceEntries([text |-> text, mappings |-> <<>>], sorted_abbrevs, 1, "abbreviation")

\* _transform_numbers(text, original) -> [text, mappings]
TransformNumbers(text) ==
    ReplaceEntries([text |-> text, mappings |-> <<>>], ordinals, 1, "number")

\* one entry of transformation_log (examples: the first two mappings)
LogEntry(type, mappings) ==
    IF mappings = <<>> THEN <<>>
    ELSE <<[type |-> type, count |-> Len(mappings),
            examples |-> [k \in 1..Min(2, Len(mappings)) |->
                            <<mappings[k].original_text, mappings[k].tts_text>>]]>>

\* _create_word_mappings: "For now, return existing transformation mappings"
CreateWordMappings(original, tts, existing_mappings) == existing_mappings

\* process_for_sync(original_text) -> NormalizedText
ProcessForSyncResult(text) ==
    The({The({The({The({
        [original_text |-> text,
         tts_text |-> number.text,
         word_mappings |->
            CreateWordMappings(text, number.text,
                               age.mappings \o currency.mappings \o abbrev.mappings
                               \o number.mappings),
         transformation_log |->
            LogEntry("age_gender", age.mappings)
            \o LogEntry("currency", currency.mappings)
            \o LogEntry("abbreviations", abbrev.mappings)
            \o LogEntry("numbers", number.mappings)] :
        number \in {TransformNumbers(abbrev.text)}}) :
        abbrev \in {TransformAbbreviations(currency.text)}}) :
        currency \in {TransformCurrency(age.text)}}) :
        age \in {TransformAgeGender(text)}})

(***************************************************************************)
(* Input texts: up to MaxTokens vocabulary tokens joined by single blanks, *)
(* and the scenario sentences.                                             *)
(***************************************************************************)
Vocabulary ==
    {"sister", "asked", "(28F)", "(5m)", "$2,000", "$1500", "OP", "BF", "1st"}

ScenarioTexts ==
    {"My sister (28F) asked for $2,000.",
     "My BF (28M) paid $5.50 on the 21st, TL;DR: OP and OP",
     "A person (28F) called"}

RECURSIVE TextsOf(_)
TextsOf(n) ==
    IF n = 0 THEN {""}
    ELSE LET shorter == TextsOf(n - 1)
         IN  shorter \cup {IF t = "" THEN w ELSE t \o " " \o w :
                           t \in shorter, w \in Vocabulary}

InputTexts == TextsOf(MaxTokens) \cup ScenarioTexts


(***************************************************************************)
(* Exact arithmetic on times (seconds as reduced fractions n/d, d > 0)     *)
(***************************************************************************)
RECURSIVE GCD(_, _)
GCD(a, b) == IF b = 0 THEN a ELSE The({GCD(b, r) : r \in {a % b}})

Abs(a) == IF a < 0 THEN -a ELSE a

Rat(n, d) ==
    The({The({[n |-> (IF q < 0 THEN -1 ELSE 1) * (p \div g), d |-> Abs(q) \div g] :
              g \in {GCD(Abs(p), Abs(q))}}) :
         <<p, q>> \in {<<n, d>>}})

Whole(k) == [n |-> k, d |-> 1]

LCM(a, b) == The({(x \div GCD(x, y)) * y : <<x, y>> \in {<<a, b>>}})

RatAdd(a, b) ==
    The({The({Rat(x.n * (d \div x.d) + y.n * (d \div y.d), d) :
              d \in {LCM(x.d, y.d)}}) :
         <<x, y>> \in {<<a, b>>}})

RatSub(a, b) == The({RatAdd(a, [n |-> -y.n, d |-> y.d]) : y \in {b}})

RatMul(a, b) ==
    The({The({Rat(p.n * q.n, p.d * q.d) :
              <<p, q>> \in {<<Rat(x.n, y.d), Rat(y.n, x.d)>>}}) :
         <<x, y>> \in {<<a, b>>}})

\* a / b for b # 0
RatDiv(a, b) == The({RatMul(a, Rat(y.d, y.n)) : y \in {b}})

RatLE(a, b) ==
    The({The({x.n * (d \div x.d) <= y.n * (d \div y.d) : d \in {LCM(x.d, y.d)}}) :
         <<x, y>> \in {<<a, b>>}})

RatLT(a, b) == ~RatLE(b, a)

RatMin(a, b) == The({IF RatLE(x, y) THEN x ELSE y : <<x, y>> \in {<<a, b>>}})

RECURSIVE RatSumFrom(_, _)
RatSumFrom(xs, k) ==
    IF k > Len(xs) THEN Whole(0) ELSE RatAdd(xs[k], RatSumFrom(xs, k + 1))

\* sum(xs)
RatSum(xs) == The({RatSumFrom(values, 1) : values \in {xs}})

\* one entry (word, start, end) of a word-timing list
Timing(word, start, end) == [word |-> word, start |-> start, end |-> end]

(***************************************************************************)
(* The phonetic estimator: VideoGenerator._calculate_word_timings_estimated *)
(***************************************************************************)
Vowels == {"a", "e", "i", "o", "u"}

VowelsY == Vowels \cup {"y"}

Consonants == LowerChars \ Vowels

\* r'\b\w+(?:\'\w+)?\b' at index i
WordPatternMatchLen(s, i) ==
    IF ~IsWordChar(At(s, i)) \/ IsWordChar(At(s, i - 1)) THEN 0
    ELSE The({IF At(s, i + r) = "'" /\ IsWordChar(At(s, i + r + 1))
              THEN r + 1 + RunLen(s, i + r + 1, WordChars)
              ELSE r :
              r \in {RunLen(s, i, WordChars)}})

\* r'[bcdfghjklmnpqrstvwxyz]{2,}' at index i
ConsonantClusterMatchLen(s, i) ==
    The({IF r >= 2 THEN r ELSE 0 : r \in {RunLen(s, i, Consonants)}})

\* r'[aeiou]{2,}|ough|tion|sion' at index i
VowelComplexityMatchLen(s, i) ==
    The({IF r >= 2 THEN r
         ELSE IF SubSeq(s, i, Min(i + 3, Len(s))) \in {"ough", "tion", "sion"} THEN 4
         ELSE 0 :
         r \in {RunLen(s, i, Vowels)}})

\* r'[aeiouy]+' at index i
VowelGroupMatchLen(s, i) == RunLen(s, i, VowelsY)

\* the patterns of the estimator, by name
EstimatorMatchLen(pat, s, i) ==
    CASE pat = "word"             -> WordPatternMatchLen(s, i)
      [] pat = "consonant_cluster" -> ConsonantClusterMatchLen(s, i)
      [] pat = "vowel_complexity"  -> VowelComplexityMatchLen(s, i)
      [] pat = "vowel_group"       -> VowelGroupMatchLen(s, i)

RECURSIVE FindAllFrom(_, _, _)
FindAllFrom(pat, s, i) ==
    The({IF hits = {} THEN <<>>
         ELSE The({<<[start |-> j - 1, end |-> j - 1 + n]>>
                   \o FindAllFrom(pat, s, j + n) :
                   <<j, n>> \in {<<MinOf(hits), EstimatorMatchLen(pat, s, MinOf(hits))>>}}) :
         hits \in {{h \in i..Len(s) : EstimatorMatchLen(pat, s, h) > 0}}})

\* re.finditer / re.findall of an estimator pattern: the matches' spans
FindAll(pat, s) == The({FindAllFrom(pat, text, 1) : text \in {s}})

EndsWith(s, suffix) ==
    Len(s) >= Len(suffix) /\ SubSeq(s, Len(s) - Len(suffix) + 1, Len(s)) = suffix

\* re.sub(r'(ed|es|ing|ly|tion|sion)$', '', word): the leftmost match that
\* reaches the end of the word is removed
StripEnding(word) ==
    The({IF EndsWith(w, "tion") \/ EndsWith(w, "sion") THEN SubSeq(w, 1, Len(w) - 4)
         ELSE IF EndsWith(w, "ing") THEN SubSeq(w, 1, Len(w) - 3)
         ELSE IF EndsWith(w, "ed") \/ EndsWith(w, "es") \/ EndsWith(w, "ly")
              THEN SubSeq(w, 1, Len(w) - 2)
         ELSE w :
         w \in {word}})

\* _estimate_syllables(word)
EstimateSyllables(word) ==
    The({The({Max(1, IF EndsWith(stem, "e") /\ syllables > 1 THEN syllables - 1
                     ELSE syllables) :
              syllables \in {Len(FindAll("vowel_group", stem))}}) :
         stem \in {StripEnding(ToLower(word))}})

CommonWords ==
    {"i", "a", "the", "and", "or", "but", "in", "on", "at", "to", "for", "of",
     "with", "by"}

AuxiliaryWords ==
    {"am", "is", "are", "was", "were", "have", "has", "had", "will", "would",
     "could", "should"}

\* frequency_factor * 10
FrequencyFactor10(word) ==
    The({IF lower \in CommonWords THEN 7
         ELSE IF lower \in AuxiliaryWords THEN 8
         ELSE 10 :
         lower \in {ToLower(word)}})

\* duration_units = syllables * 0.15 * (1.0 + 0.1 * clusters + 0.1 * vowel
\* patterns) * frequency_factor
DurationUnits(word) ==
    The({Rat(EstimateSyllables(word) * 15 * (10 + consonant_clusters + vowel_complexity)
                 * FrequencyFactor10(word),
             10000) :
         <<consonant_clusters, vowel_complexity>> \in
             {<<Len(FindAll("consonant_cluster", ToLower(word))),
                Len(FindAll("vowel_complexity", ToLower(word)))>>}})

HasAny(s, chars) == \E i \in 1..Len(s) : At(s, i) \in chars

\* the pause after a word, from the text between it and the next word
PauseTime(between_text) ==
    The({IF HasAny(between, {".", "!", "?"}) THEN Rat(4, 10)
         ELSE IF HasAny(between, {",", ";", ":"}) THEN Rat(2, 10)
         ELSE IF HasAny(between, {"\"", "'"}) THEN Rat(1, 10)
         ELSE Rat(5, 100) :
         between \in {between_text}})

RECURSIVE EstimatedFrom(_, _, _, _, _, _)
\* "Generate synchronized word timings": the loop over zip(words,
\* word_durations, pause_times), from word k at current_time
EstimatedFrom(words, word_durations, pause_times, scale_factor, k, current_time) ==
    IF k > Len(words) THEN <<>>
    ELSE The({<<Timing(words[k], start_time, end_time)>>
              \o EstimatedFrom(words, word_durations, pause_times, scale_factor, k + 1,
                               RatAdd(end_time, RatMul(pause_times[k], scale_factor))) :
              <<start_time, end_time>> \in
                  {<<current_time,
                     RatAdd(current_time, RatMul(word_durations[k], scale_factor))>>}})

\* _calculate_word_timings_estimated(text, audio_duration)
CalculateWordTimingsEstimated(text, audio_duration) ==
    The({The({The({The({The({
        IF Len(words) = 0 THEN <<>>
        ELSE EstimatedFrom(words, word_durations, pause_times, scale_factor, 1, Whole(0)) :
        scale_factor \in
            {IF RatLT(Whole(0), total_estimated_time)
             THEN RatDiv(audio_duration, total_estimated_time)
             ELSE Whole(1)}}) :
        total_estimated_time \in {RatAdd(RatSum(word_durations), RatSum(pause_times))}}) :
        <<word_durations, pause_times>> \in
            {<<[k \in 1..Len(words) |-> DurationUnits(words[k])],
               [k \in 1..Len(words) |->
                   PauseTime(Slice(text, matches[k].end,
                                   IF k < Len(words) THEN matches[k + 1].start
                                   ELSE Len(text)))]>>}}) :
        words \in
            {[k \in 1..Len(matches) |-> Slice(text, matches[k].start, matches[k].end)]}}) :
        matches \in {FindAll("word", text)}})

(***************************************************************************)
(* Segment anchors: VideoGenerator._get_whispers2t_segments and            *)
(* VideoGenerator._apply_tts_text_to_segments                              *)
(***************************************************************************)
RECURSIVE TrailingRunLen(_, _, _)
TrailingRunLen(s, i, class) ==
    IF i >= 1 /\ At(s, i) \in class THEN 1 + TrailingRunLen(s, i - 1, class) ELSE 0

\* str.strip()
Strip(s) ==
    The({IF lead = Len(text) THEN ""
         ELSE SubSeq(text, lead + 1,
                     Len(text) - TrailingRunLen(text, Len(text), Whitespace)) :
         <<text, lead>> \in {<<s, RunLen(s, 1, Whitespace)>>}})

\* dict.get(key, default)
Get(dict, key, default) == IF key \in DOMAIN dict THEN dict[key] ELSE default

\* (start_time, end_time, text) read from one segment of the recognizer
SegmentOf(segment) ==
    The({[start |-> start_time,
          end |-> Get(segment, "end_time", RatAdd(start_time, Whole(1))),
          text |-> Strip(Get(segment, "text", ""))] :
         start_time \in {Get(segment, "start_time", Whole(0))}})

RECURSIVE KeptSegmentsFrom(_, _)
\* the loop over file_result: a segment is kept if it has text and
\* end_time > start_time
KeptSegmentsFrom(file_result, k) ==
    IF k > Len(file_result) THEN <<>>
    ELSE The({(IF s.text # "" /\ RatLT(s.start, s.end) THEN <<s>> ELSE <<>>)
              \o KeptSegmentsFrom(file_result, k + 1) :
              s \in {SegmentOf(file_result[k])}})

\* _get_whispers2t_segments: the recognizer either raises (load_model or
\* transcribe_with_vad) or returns the segments of the file
GetWhispers2tSegments(recognizer) ==
    IF recognizer.raised THEN <<>> ELSE KeptSegmentsFrom(recognizer.result, 1)

RECURSIVE AllocatedFrom(_, _, _, _)
\* the allocation made by the loop over enumerate(segments): for each of the
\* n_words TTS words in turn, the 1-based index of its segment, its 0-based
\* rank j among the words of that segment and their number k
AllocatedFrom(n_words, segments, i, current_word_index) ==
    IF i >= Len(segments) THEN <<>>
    ELSE The({[j \in 1..k |-> [segment |-> i + 1, j |-> j - 1, k |-> k]]
              \o (IF current_word_index + k >= n_words THEN <<>>
                  ELSE AllocatedFrom(n_words, segments, i + 1, current_word_index + k)) :
              k \in {IF Len(segments) - i = 1 THEN n_words - current_word_index
                     ELSE Max(1, Min(Len(Split(segments[i + 1].text)),
                                     n_words - current_word_index))}})

\* the allocation _apply_tts_text_to_segments makes: none without segments
\* or without words
Allocated(tts_words, segments) ==
    IF Len(segments) = 0 \/ Len(tts_words) = 0 THEN <<>>
    ELSE AllocatedFrom(Len(tts_words), segments, 0, 0)

\* an allocation-free spreading: the words share the span from the first
\* segment's start to the last segment's end
ApplyAcrossSegments(tts_text, segments) ==
    The({[p \in 1..Len(tts_words) |->
            Timing(tts_words[p],
                   RatAdd(segments[1].start, RatMul(Whole(p - 1), word_duration)),
                   RatAdd(segments[1].start, RatMul(Whole(p), word_duration)))] :
         <<tts_words, word_duration>> \in
            {<<Split(tts_text),
               RatDiv(RatSub(segments[Len(segments)].end, segments[1].start),
                      Whole(Max(1, Len(Split(tts_text)))))>>}})

RECURSIVE ApplyFrom(_, _, _, _)
\* the loop over enumerate(segments), at the segment with 0-based index i
ApplyFrom(tts_words, segments, i, current_word_index) ==
    IF i >= Len(segments) THEN <<>>
    ELSE The({The({The({
        [j \in 1..Len(segment_words) |->
            The({Timing(segment_words[j], word_start,
                        RatMin(RatAdd(word_start, word_duration), seg.end)) :
                 word_start \in {RatAdd(seg.start, RatMul(Whole(j - 1), word_duration))}})]
        \o (IF current_word_index + Len(segment_words) >= Len(tts_words) THEN <<>>
            ELSE ApplyFrom(tts_words, segments, i + 1,
                           current_word_index + Len(segment_words))) :
        word_duration \in
            {RatDiv(RatSub(seg.end, seg.start), Whole(Len(segment_words)))}}) :
        segment_words \in
            {SubSeq(tts_words, current_word_index + 1,
                    Min(current_word_index + segment_word_count, Len(tts_words)))}}) :
        <<seg, segment_word_count>> \in
            {<<segments[i + 1],
               IF Len(segments) - i = 1 THEN Len(tts_words) - current_word_index
               ELSE Max(1, Min(Len(Split(segments[i + 1].text)),
                               Len(tts_words) - current_word_index))>>}})

\* _apply_tts_text_to_segments(tts_text, segments)
ApplyTtsTextToSegments(tts_text, segments) ==
    The({IF Len(segs) = 0 THEN <<>>
         ELSE IF Len(tts_words) = 0 THEN <<>>
         ELSE ApplyFrom(tts_words, segs, 0, 0) :
         <<tts_words, segs>> \in {<<Split(tts_text), segments>>}})

\* the branch _analyze_audio_for_word_timings takes
AnalysisPath(available, recognizer) ==
    IF available /\ Len(GetWhispers2tSegments(recognizer)) > 0 THEN "segments"
    ELSE "estimated"

\* _analyze_audio_for_word_timings(audio_path, text); probed_duration is what
\* _get_audio_duration returns for the audio
AnalyzeAudioForWordTimings(text, available, recognizer, probed_duration) ==
    The({IF available /\ Len(segment_timings) > 0
         THEN ApplyTtsTextToSegments(text, segment_timings)
         ELSE CalculateWordTimingsEstimated(text, probed_duration) :
         segment_timings \in {GetWhispers2tSegments(recognizer)}})

(***************************************************************************)
(* Word anchors: VideoGenerator._align_tts_text_with_whisper_timing        *)
(***************************************************************************)
\* total_duration = 60.0 when there is no timing data
DefaultDuration == 60

\* the branch _align_tts_text_with_whisper_timing takes
AlignPath(tts_words, whisper_timings) ==
    IF Len(tts_words) = Len(whisper_timings) THEN "identity"
    ELSE IF Len(whisper_timings) = 0 THEN "default"
    ELSE "proportional"

\* a reconciliation without the 1:1 fast path: every word is re-timed to an
\* equal share of the last anchor's end (of DefaultDuration without anchors)
AlignWithoutFastPath(tts_words, whisper_timings) ==
    The({[i \in 1..Len(tts_words) |->
            Timing(tts_words[i], RatMul(Rat(i - 1, Len(tts_words)), total_duration),
                   RatMul(Rat(i, Len(tts_words)), total_duration))] :
         total_duration \in {IF Len(whisper_timings) = 0 THEN Whole(DefaultDuration)
                             ELSE whisper_timings[Len(whisper_timings)].end}})

\* _align_tts_text_with_whisper_timing(tts_words, whisper_timings)
AlignTtsTextWithWhisperTiming(tts_words, whisper_timings) ==
    The({IF n = Len(whisper_timings)
         THEN [i \in 1..n |->
                 Timing(words[i], whisper_timings[i].start, whisper_timings[i].end)]
         ELSE IF Len(whisper_timings) = 0
         THEN The({[i \in 1..n |->
                      Timing(words[i], RatMul(Whole(i - 1), word_duration),
                             RatMul(Whole(i), word_duration))] :
                   word_duration \in {RatDiv(Whole(DefaultDuration), Whole(n))}})
         ELSE The({[i \in 1..n |->
                      Timing(words[i],
                             IF i = 1 THEN Whole(0)
                             ELSE RatMul(Rat(i - 1, n), total_duration),
                             IF i = n THEN total_duration
                             ELSE RatMul(Rat(i, n), total_duration))] :
                   total_duration \in {whisper_timings[Len(whisper_timings)].end}}) :
         <<words, n>> \in {<<tts_words, Len(tts_words)>>}})

(***************************************************************************)
(* WhisperS2TAnalyzer._estimate_natural_word_timing: the word timings      *)
(* estimated inside one segment                                            *)
(***************************************************************************)
RECURSIVE FoldLetters(_, _)
\* the lower-case letters of s from position i on
FoldLetters(s, i) ==
    IF i > Len(s) THEN ""
    ELSE (IF At(s, i) \in LowerChars THEN At(s, i) ELSE "") \o FoldLetters(s, i + 1)

\* re.sub(r'[^a-z]', '', word.lower())
LettersOf(word) ==
    The({FoldLetters(lower, 1) : lower \in {ToLower(word)}})

\* WhisperS2TAnalyzer._estimate_syllables(word)
NaturalSyllables(word) ==
    The({IF letters = "" THEN 1 ELSE EstimateSyllables(letters) :
         letters \in {LettersOf(word)}})

\* the auxiliaries _estimate_natural_word_timing speeds up
NaturalAuxiliaryWords ==
    {"am", "is", "are", "was", "were", "have", "has", "had", "will", "would"}

\* the complexity of a word
Complexity(word) ==
    The({RatAdd(
            RatMul(Rat(10 + (IF Len(word) > 8 THEN 3 ELSE 0)
                          + (IF HasAny(lower, {"x", "z", "v", "q", "j"}) THEN 2 ELSE 0)
                          + (IF \/ EndsWith(word, "tion") \/ EndsWith(word, "sion")
                                \/ EndsWith(word, "ous") \/ EndsWith(word, "ment")
                             THEN 2 ELSE 0), 10),
                   IF lower \in CommonWords THEN Rat(7, 10)
                   ELSE IF lower \in NaturalAuxiliaryWords THEN Rat(8, 10)
                   ELSE Whole(1)),
            IF EndsWith(word, ".") \/ EndsWith(word, "!") \/ EndsWith(word, "?")
            THEN Rat(5, 10)
            ELSE IF EndsWith(word, ",") THEN Rat(2, 10)
            ELSE Whole(0)) :
         lower \in {ToLower(word)}})

\* the minimum duration of a word, 0.1 s
MinWordDuration == Rat(1, 10)

RECURSIVE NaturalFrom(_, _, _, _, _, _, _)
\* the loop over zip(words, word_weights), from word i at current_time
NaturalFrom(words, word_weights, total_weight, seg_start, seg_end, i, current_time) ==
    IF i > Len(words) THEN <<>>
    ELSE The({The({
        <<Timing(words[i], current_time, RatAdd(current_time, word_duration))>>
        \o (IF RatLE(seg_end, RatAdd(current_time, word_duration)) THEN <<>>
            ELSE NaturalFrom(words, word_weights, total_weight, seg_start, seg_end,
                             i + 1, RatAdd(current_time, word_duration))) :
        word_duration \in
            {IF RatLT(seg_end, RatAdd(current_time, floored))
             THEN RatSub(seg_end, current_time)
             ELSE floored}}) :
        floored \in
            {The({IF RatLT(share, MinWordDuration) THEN MinWordDuration ELSE share :
                  share \in {RatMul(RatDiv(word_weights[i], total_weight),
                                    RatSub(seg_end, seg_start))}})}})

\* _estimate_natural_word_timing(words, seg_start, seg_end)
EstimateNaturalWordTiming(words, seg_start, seg_end) ==
    IF Len(words) = 0 THEN <<>>
    ELSE The({The({
        NaturalFrom(words, word_weights,
                    IF total_weight = Whole(0) THEN Whole(Len(words)) ELSE total_weight,
                    seg_start, seg_end, 1, seg_start) :
        total_weight \in {RatSum(word_weights)}}) :
        word_weights \in
            {[i \in 1..Len(words) |->
                 RatMul(Whole(NaturalSyllables(words[i])), Complexity(words[i]))]}})

(***************************************************************************)
(* Subtitle files: _format_srt_time, _create_subtitle_file and             *)
(* _create_perfect_subtitle_file                                           *)
(***************************************************************************)
RECURSIVE ToUpper(_)
\* str.upper()
ToUpper(s) ==
    IF Len(s) <= 1 THEN UpperChar(s)
    ELSE The({ToUpper(a) \o ToUpper(b) :
              <<a, b>> \in {<<SubSeq(s, 1, Len(s) \div 2),
                              SubSeq(s, Len(s) \div 2 + 1, Len(s))>>}})

RECURSIVE IntToStr(_)
\* str(n) for n >= 0
IntToStr(n) ==
    IF n < 10 THEN At("0123456789", n + 1)
    ELSE IntToStr(n \div 10) \o At("0123456789", (n % 10) + 1)

\* f"{n:02d}", f"{n:03d}"
ZeroPad(n, width) ==
    The({IF Len(s) >= width THEN s ELSE SubSeq("000", 1, width - Len(s)) \o s :
         s \in {IntToStr(n)}})

\* timedelta(seconds=t) for t >= 0: whole seconds and microseconds, the
\* microseconds rounded half to even
TimeDelta(t) ==
    The({The({[seconds |-> whole + (microseconds \div 1000000),
               microseconds |-> microseconds % 1000000] :
              microseconds \in
                  {((rem * 1000) \div t.d) * 1000 + (r2 * 1000) \div t.d
                   + (IF 2 * ((r2 * 1000) % t.d) > t.d
                         \/ (2 * ((r2 * 1000) % t.d) = t.d
                             /\ ((r2 * 1000) \div t.d) % 2 = 1)
                      THEN 1 ELSE 0)}}) :
         <<whole, rem, r2>> \in {<<t.n \div t.d, t.n % t.d, ((t.n % t.d) * 1000) % t.d>>}})

\* _format_srt_time(seconds): HH:MM:SS,mmm
FormatSrtTime(seconds) ==
    The({ZeroPad(td.seconds \div 3600, 2) \o ":"
         \o ZeroPad((td.seconds % 3600) \div 60, 2) \o ":"
         \o ZeroPad(td.seconds % 60, 2) \o ","
         \o ZeroPad(td.microseconds \div 1000, 3) :
         td \in {TimeDelta(seconds)}})

RECURSIVE SrtContentFrom(_, _)
SrtContentFrom(word_timings, i) ==
    IF i > Len(word_timings) THEN <<>>
    ELSE << IntToStr(i),
            FormatSrtTime(word_timings[i].start) \o " --> "
                \o FormatSrtTime(word_timings[i].end),
            ToUpper(word_timings[i].word),
            "" >>
         \o SrtContentFrom(word_timings, i + 1)

\* a serialization that drops the last word timing
SrtContentWithoutLast(word_timings) ==
    SrtContentFrom(SubSeq(word_timings, 1, Len(word_timings) - 1), 1)

\* srt_content: four lines per word timing
SrtContent(word_timings) == SrtContentFrom(word_timings, 1)

\* no subtitle file
NoSubtitle == [written |-> FALSE, srt |-> <<>>, word_timings |-> <<>>, tts_text |-> ""]

\* _create_subtitle_file(text, audio_path, output_path): None unless written
CreateSubtitleFile(text, env) ==
    The({The({The({
        IF Len(word_timings) = 0 \/ ~env.srt_write_ok
        THEN [NoSubtitle EXCEPT !.tts_text = tts_text]
        ELSE [written |-> TRUE, srt |-> SrtContent(word_timings),
              word_timings |-> word_timings, tts_text |-> tts_text] :
        word_timings \in
            {IF Len(spoken) > 0 THEN spoken
             ELSE AnalyzeAudioForWordTimings(text, env.whisper_available,
                                             env.recognizer, env.probes[3])}}) :
        spoken \in
            {AnalyzeAudioForWordTimings(tts_text, env.whisper_available,
                                        env.recognizer, env.probes[3])}}) :
        tts_text \in {ProcessForSyncResult(text).tts_text}})

\* _create_perfect_subtitle_file(word_timings, output_path)
CreatePerfectSubtitleFile(word_timings, env) ==
    IF ~env.srt_write_ok THEN NoSubtitle
    ELSE [written |-> TRUE, srt |-> SrtContent(word_timings),
          word_timings |-> word_timings, tts_text |-> ""]

(***************************************************************************)
(* The video job: _assemble_final_video, generate_video and                *)
(* generate_video_with_perfect_timing                                      *)
(***************************************************************************)
\* _assemble_final_video: what the ffmpeg command renders ("subtitles" or
\* "static"), the subtitle file in use, and whether output_path is returned
AssembleFinalVideo(text, synchronized_text, subtitle_path, env) ==
    The({[video |-> env.ffmpeg_ok,
          rendered |->
             IF ~env.ffmpeg_ok THEN "none"
             ELSE IF ~synchronized_text THEN "static"
             ELSE IF RatLE(env.probes[2], Whole(0)) THEN "static"
             ELSE IF subtitle.written THEN "subtitles"
             ELSE "static",
          subtitle |-> subtitle] :
         subtitle \in
             {IF ~synchronized_text \/ RatLE(env.probes[2], Whole(0)) THEN subtitle_path
              ELSE IF subtitle_path.written THEN subtitle_path
              ELSE CreateSubtitleFile(text, env)}})

\* VideoResult, with what the job left behind
VideoResult(success, error_message, duration, rendered, subtitle) ==
    [success |-> success, error_message |-> error_message,
     video |-> success, duration |-> duration, rendered |-> rendered,
     subtitle |-> subtitle]

\* generate_video(audio_path, text, config)
GenerateVideoResult(text, synchronized_text, env) ==
    IF RatLE(env.probes[1], Whole(0))
    THEN VideoResult(FALSE, "Invalid audio file or duration", Whole(0), "none",
                     NoSubtitle)
    ELSE IF ~env.background_ok
    THEN VideoResult(FALSE, "Failed to create background video", Whole(0), "none",
                     NoSubtitle)
    ELSE The({IF ~final.video
              THEN VideoResult(FALSE, "Failed to assemble final video", Whole(0),
                               "none", final.subtitle)
              ELSE VideoResult(TRUE, "", env.probes[1], final.rendered, final.subtitle) :
              final \in {AssembleFinalVideo(text, synchronized_text, NoSubtitle, env)}})

\* generate_video_with_perfect_timing(audio_path, text, word_timings, config)
GenerateVideoWithPerfectTimingResult(text, word_timings, synchronized_text, env) ==
    IF ~env.background_ok
    THEN VideoResult(FALSE, "Failed to create background video", Whole(0), "none",
                     NoSubtitle)
    ELSE The({IF ~subtitle_path.written
              THEN VideoResult(FALSE, "Failed to create perfect subtitle file",
                               Whole(0), "none", NoSubtitle)
              ELSE The({IF ~final.video
                        THEN VideoResult(FALSE,
                                 "Failed to assemble final video with perfect timing",
                                 Whole(0), "none", final.subtitle)
                        ELSE VideoResult(TRUE, "", env.probes[1], final.rendered,
                                         final.subtitle) :
                        final \in {AssembleFinalVideo(text, synchronized_text,
                                                      subtitle_path, env)}}) :
              subtitle_path \in {CreatePerfectSubtitleFile(word_timings, env)}})

(***************************************************************************)
(* Inputs of the reconciliation and of the video job                       *)
(***************************************************************************)
\* all sequences over S of length at most n
SeqsUpTo(S, n) == UNION {[1..k -> S] : k \in 0..n}

\* texts handed to the reconciliation as tts_text
ReconcileTexts ==
    {"", "one", "one two three", "2,000 dollars", "I don't know, though.",
     "twenty-first place", "wait ... what", "a b", "a b c d", "a b c d e"}

\* the audio's duration in seconds; 0 stands for an unreadable file
\* (_get_audio_duration returns 0.0)
AudioDurations == {Whole(0), Rat(1, 4), Whole(1), Whole(3)}

\* segments as the recognizer reports them: dicts whose keys may be missing
RawSegments ==
    {[start_time |-> Whole(a), end_time |-> Whole(b), text |-> t] :
        a \in {0, 2}, b \in {2, 4}, t \in {" ", "uh huh "}}
    \cup {[start_time |-> Whole(2), text |-> "uh"], [end_time |-> Whole(1), text |-> "uh"]}
    \cup {[start_time |-> Whole(0), end_time |-> Whole(1), text |-> "a b"],
          [start_time |-> Whole(1), end_time |-> Whole(3), text |-> "c d"]}

\* the recognizer was not run
NotRun == [raised |-> FALSE, result |-> <<>>]

\* the recognizer raised
Raised == [raised |-> TRUE, result |-> <<>>]

RecognizerResults ==
    {Raised} \cup {[raised |-> FALSE, result |-> r] : r \in SeqsUpTo(RawSegments, MaxSegments)}

\* word-level anchors (word, start, end)
WordAnchors ==
    {Timing("uh", Whole(0), Whole(1)), Timing("huh", Whole(1), Whole(2)),
     Timing("um", Whole(1), Whole(4))}

NoAnchors == [kind |-> "none"]

\* texts handed to a video job
JobTexts ==
    {"", "...", "one two three", "My sister (28F) asked for $2,000.", "TL;DR it works"}

JobDurations == {Whole(0), Whole(2)}

\* what the successive _get_audio_duration calls of one job return for an
\* audio of the given duration: the duration, or 0.0 when ffprobe fails
Probes(duration) ==
    IF duration = Whole(0) THEN {<<duration, duration, duration>>}
    ELSE [1..3 -> {Whole(0), duration}]

JobRecognizers ==
    {Raised, NotRun,
     [raised |-> FALSE,
      result |-> <<[start_time |-> Whole(0), end_time |-> Whole(2), text |-> "uh huh"]>>],
     [raised |-> FALSE,
      result |-> <<[start_time |-> Whole(0), end_time |-> Whole(2), text |-> "uh huh"],
                   [start_time |-> Whole(1), end_time |-> Whole(4), text |-> "uh"]>>]}

\* word timings handed to generate_video_with_perfect_timing
PerfectTimings ==
    {<<>>,
     <<Timing("one", Whole(0), Rat(1, 2)), Timing("two", Rat(1, 2), Whole(1)),
       Timing("three", Whole(1), Whole(2))>>}

\* the outcomes of the external steps of one job
JobEnvs(duration, recognizers) ==
    {[probes |-> p, background_ok |-> b, whisper_available |-> a, recognizer |-> r,
      srt_write_ok |-> w, ffmpeg_ok |-> f] :
        p \in Probes(duration), b \in BOOLEAN, a \in BOOLEAN, r \in recognizers,
        w \in BOOLEAN, f \in BOOLEAN}

NoResult == [original_text |-> "", tts_text |-> "", word_mappings |-> <<>>,
             transformation_log |-> <<>>]

NoJob == [entry |-> "none"]

NoJobResult == VideoResult(FALSE, "", Whole(0), "none", NoSubtitle)

\* nothing has been normalized, reconciled, generated or requested
NormalizeIdle ==
    /\ npc = "idle"
    /\ original_text = ""
    /\ normalized = NoResult
    /\ renormalized = NoResult

ReconcileIdle ==
    /\ rpc = "idle"
    /\ reconcile_text = ""
    /\ reconcile_duration = Whole(0)
    /\ reconcile_anchors = NoAnchors
    /\ reconcile_timings = <<>>
    /\ reconcile_path = "none"

JobIdle ==
    /\ jpc = "idle"
    /\ job = NoJob
    /\ job_result = NoJobResult

NoResponse == [op |-> "none"]

NoEntry == [timing_method |-> "none"]

\* no request has been handled
WebIdle ==
    /\ processed_text_cache = <<>>
    /\ audio_files = {}
    /\ web_response = NoResponse

\* two clients of the web service, each running one job: a synthesize
\* request, then a generate-video request for the audio it was given
WebJobs == {"job A", "job B"}

\* no web job is under way
WebJobsIdle ==
    /\ web_job_pc = [j \in WebJobs |-> "idle"]
    /\ web_job_audio = [j \in WebJobs |-> ""]
    /\ web_job_entry = [j \in WebJobs |-> NoEntry]
    /\ web_job_video = [j \in WebJobs |-> NoResponse]

\* no TTS result yet
NoTTSResult == [success |-> FALSE, provider_used |-> "none", error_message |-> "none"]

\* no TTS engine is in use
TtsIdle ==
    /\ tpc = "idle"
    /\ tts_engine = [providers |-> {}, system_voices |-> {}, edge_voices |-> {}]
    /\ tts_call = [op |-> "none"]
    /\ tts_attempts = <<>>
    /\ tts_result = NoTTSResult

NoAlignResult == [outcome |-> "none"]

\* no timing backend is in use
BackendsIdle ==
    /\ backend = "none"
    /\ library_available = FALSE
    /\ librosa_available = FALSE
    /\ model_loaded = FALSE
    /\ align_calls = 0
    /\ load_attempts = 0
    /\ models_loaded = 0
    /\ load_failed = FALSE
    /\ align_result = NoAlignResult

(***************************************************************************)
(* The normalizer run: process_for_sync on the input, then once more on    *)
(* its tts_text (web_app hands the cached tts_text to generate_video,      *)
(* whose _create_subtitle_file calls process_for_sync on it again).        *)
(***************************************************************************)
InitNormalize ==
    /\ npc = "input"
    /\ original_text \in InputTexts
    /\ normalized = NoResult
    /\ renormalized = NoResult
    /\ ReconcileIdle
    /\ JobIdle
    /\ WebIdle
    /\ BackendsIdle
    /\ WebJobsIdle
    /\ TtsIdle

ProcessForSync ==
    /\ npc = "input"
    /\ normalized' = ProcessForSyncResult(original_text)
    /\ npc' = "normalized"
    /\ UNCHANGED <<original_text, renormalized, reconcile_vars, job_vars, web_vars,
                   backend_vars,
                   web_job_vars,
                   tts_vars>>

ProcessForSyncAgain ==
    /\ npc = "normalized"
    /\ renormalized' = ProcessForSyncResult(normalized.tts_text)
    /\ npc' = "renormalized"
    /\ UNCHANGED <<original_text, normalized, reconcile_vars, job_vars, web_vars,
                   backend_vars,
                   web_job_vars,
                   tts_vars>>

NextNormalize == ProcessForSync \/ ProcessForSyncAgain

SpecNormalize == InitNormalize /\ [][NextNormalize]_vars

(***************************************************************************)
(* The reconciliation of one tts_text with the anchors of one audio        *)
(***************************************************************************)
InitReconcile ==
    /\ rpc = "input"
    /\ reconcile_text \in ReconcileTexts
    /\ reconcile_duration \in AudioDurations
    /\ reconcile_anchors = NoAnchors
    /\ reconcile_timings = <<>>
    /\ reconcile_path = "none"
    /\ NormalizeIdle
    /\ JobIdle
    /\ WebIdle
    /\ BackendsIdle
    /\ WebJobsIdle
    /\ TtsIdle

\* _analyze_audio_for_word_timings(audio_path, reconcile_text)
AnalyzeAudio ==
    /\ rpc = "input"
    /\ \E available \in BOOLEAN, recognizer \in RecognizerResults :
        /\ ~available => recognizer = NotRun
        /\ reconcile_anchors' =
               [kind |-> "segments", available |-> available, recognizer |-> recognizer]
        /\ reconcile_timings' =
               AnalyzeAudioForWordTimings(reconcile_text, available, recognizer,
                                          reconcile_duration)
        /\ reconcile_path' = AnalysisPath(available, recognizer)
    /\ rpc' = "done"
    /\ UNCHANGED <<reconcile_text, reconcile_duration, normalize_vars, job_vars,
                   web_vars, backend_vars,
                   web_job_vars,
                   tts_vars>>

\* _align_tts_text_with_whisper_timing(reconcile_text.split(), whisper_timings)
AlignWords ==
    /\ rpc = "input"
    /\ \E whisper_timings \in SeqsUpTo(WordAnchors, MaxAnchors) :
        /\ reconcile_anchors' = [kind |-> "words", whisper_timings |-> whisper_timings]
        /\ reconcile_timings' =
               AlignTtsTextWithWhisperTiming(Split(reconcile_text), whisper_timings)
        /\ reconcile_path' = AlignPath(Split(reconcile_text), whisper_timings)
    /\ rpc' = "done"
    /\ UNCHANGED <<reconcile_text, reconcile_duration, normalize_vars, job_vars,
                   web_vars, backend_vars,
                   web_job_vars,
                   tts_vars>>

\* the bounds of a segment, seg_end > seg_start as analyze_audio requires
SegmentBounds ==
    {<<Whole(0), Rat(1, 5)>>, <<Whole(0), Rat(1, 4)>>, <<Whole(0), Whole(1)>>,
     <<Whole(1), Whole(4)>>}

\* _estimate_natural_word_timing(reconcile_text.split(), seg_start, seg_end)
EstimateSegmentWords ==
    /\ rpc = "input"
    /\ \E bounds \in SegmentBounds :
        /\ reconcile_anchors' =
               [kind |-> "segment", seg_start |-> bounds[1], seg_end |-> bounds[2]]
        /\ reconcile_timings' =
               EstimateNaturalWordTiming(Split(reconcile_text), bounds[1], bounds[2])
        /\ reconcile_path' = "natural"
    /\ rpc' = "done"
    /\ UNCHANGED <<reconcile_text, reconcile_duration, normalize_vars, job_vars,
                   web_vars, backend_vars, web_job_vars, tts_vars>>

NextReconcile == AnalyzeAudio \/ AlignWords \/ EstimateSegmentWords

SpecReconcile == InitReconcile /\ [][NextReconcile]_vars

(***************************************************************************)
(* One video job                                                           *)
(***************************************************************************)
Init ==
    /\ JobIdle
    /\ NormalizeIdle
    /\ ReconcileIdle
    /\ WebIdle
    /\ BackendsIdle
    /\ WebJobsIdle
    /\ TtsIdle

\* VideoGenerator.generate_video(audio_path, text, config)
GenerateVideo ==
    /\ jpc = "idle"
    /\ \E text \in JobTexts, synchronized_text \in BOOLEAN, duration \in JobDurations :
        \E env \in JobEnvs(duration, JobRecognizers) :
            /\ ~env.whisper_available => env.recognizer = NotRun
            /\ job' = [entry |-> "generate_video", text |-> text,
                       synchronized_text |-> synchronized_text, word_timings |-> <<>>,
                       audio_duration |-> duration, env |-> env]
            /\ job_result' = GenerateVideoResult(text, synchronized_text, env)
    /\ jpc' = "done"
    /\ UNCHANGED <<normalize_vars, reconcile_vars, web_vars, backend_vars,
                   web_job_vars,
                   tts_vars>>

\* VideoGenerator.generate_video_with_perfect_timing(audio_path, text,
\* word_timings, config)
GenerateVideoWithPerfectTiming ==
    /\ jpc = "idle"
    /\ \E text \in JobTexts, word_timings \in PerfectTimings,
          synchronized_text \in BOOLEAN, duration \in JobDurations :
        \E env \in JobEnvs(duration, {NotRun}) :
            /\ ~env.whisper_available
            /\ job' = [entry |-> "generate_video_with_perfect_timing", text |-> text,
                       synchronized_text |-> synchronized_text,
                       word_timings |-> word_timings,
                       audio_duration |-> duration, env |-> env]
            /\ job_result' =
                   GenerateVideoWithPerfectTimingResult(text, word_timings,
                                                        synchronized_text, env)
    /\ jpc' = "done"
    /\ UNCHANGED <<normalize_vars, reconcile_vars, web_vars, backend_vars,
                   web_job_vars,
                   tts_vars>>

Next == GenerateVideo \/ GenerateVideoWithPerfectTiming

Spec == Init /\ [][Next]_vars

(***************************************************************************)
(* The web service (src/web_app.py): processed_text_cache and the          *)
(* endpoints /api/synthesize, /api/synthesize-with-timing and              *)
(* /api/generate-video, each request handled in one step                   *)
(***************************************************************************)
\* texts sent to the synthesize endpoints
WebTexts == {"BF (5m)"}

\* texts sent along with a generate-video request
VideoRequestTexts == WebTexts \cup {"one two"}

\* the provider whose audio synthesize_with_fallback returns
WebProviders == {"gtts"}

\* the name of the audio file a provider writes for a spoken text:
\* f"{prefix}_{hash(text)}.mp3", the text standing for its own hash
AudioFilename(prefix, text) == prefix \o "_" \o text \o ".mp3"

\* the audio files the endpoints can create
AudioFilenames ==
    {AudioFilename(prefix, ProcessForSyncResult(text).tts_text) :
        prefix \in WebProviders \cup {"edge_tts_timing"}, text \in WebTexts}

\* the audio of every synthesized file lasts two seconds
WebAudioDuration == Whole(2)

\* the word boundaries Edge TTS reports for a spoken text: half a second
\* or three quarters of a second a word
NativeTimings(tts_text) ==
    {The({[i \in 1..Len(words) |->
             Timing(words[i], RatMul(Whole(i - 1), pace), RatMul(Whole(i), pace))] :
          words \in {Split(tts_text)}}) : pace \in {Rat(1, 2), Rat(3, 4)}}

\* the outcomes of the external steps of the video job of one request
WebEnvs ==
    {[probes |-> <<p, WebAudioDuration, WebAudioDuration>>, background_ok |-> TRUE,
      whisper_available |-> r # NotRun, recognizer |-> r,
      srt_write_ok |-> TRUE, ffmpeg_ok |-> f] :
        p \in {WebAudioDuration},
        r \in {NotRun,
               [raised |-> FALSE,
                result |-> <<[start_time |-> Whole(0), end_time |-> Whole(2),
                              text |-> "uh huh"]>>]},
        f \in BOOLEAN}
    \cup {[probes |-> <<Whole(0), Whole(0), Whole(0)>>, background_ok |-> TRUE,
           whisper_available |-> FALSE, recognizer |-> NotRun,
           srt_write_ok |-> TRUE, ffmpeg_ok |-> TRUE]}

\* _create_subtitle_file is reached by generate_video, and with it
\* _analyze_audio_for_word_timings (the recognizer or the estimator)
TimingAnalysisRuns(synchronized_text, env) ==
    /\ RatLT(Whole(0), env.probes[1])
    /\ env.background_ok
    /\ synchronized_text
    /\ RatLT(Whole(0), env.probes[2])

\* processed_text_cache.get(audio_filename)
CacheGet(cache, audio_filename) ==
    IF audio_filename \in DOMAIN cache THEN cache[audio_filename] ELSE NoEntry

\* processed_text_cache[audio_filename] = entry
CachePut(cache, audio_filename, entry) ==
    [f \in DOMAIN cache \cup {audio_filename} |->
        IF f = audio_filename THEN entry ELSE cache[f]]

\* del processed_text_cache[audio_filename], if present
CacheDelete(cache, audio_filename) ==
    [f \in DOMAIN cache \ {audio_filename} |-> cache[f]]

\* ProcessingResult of the generate-video endpoint, with what the job used;
\* source is the pair (text_source, subtitle_text)
VideoResponse(audio_filename, success, cached, source, analysis_ran, captions) ==
    [op |-> "generate_video", audio_filename |-> audio_filename, success |-> success,
     cached |-> cached, text_source |-> source[1], subtitle_text |-> source[2],
     analysis_ran |-> analysis_ran, captions |-> captions]

InitWeb ==
    /\ WebIdle
    /\ BackendsIdle
    /\ WebJobsIdle
    /\ TtsIdle
    /\ NormalizeIdle
    /\ ReconcileIdle
    /\ JobIdle

\* POST /api/synthesize
SynthesizeSpeech ==
    /\ \E text \in WebTexts, content_ok \in BOOLEAN, tts_ok \in BOOLEAN,
          provider \in WebProviders :
        \E normalized_data \in {ProcessForSyncResult(text)} :
        \E audio_filename \in {AudioFilename(provider, normalized_data.tts_text)} :
            IF content_ok /\ tts_ok
            THEN /\ audio_files' = audio_files \cup {audio_filename}
                 /\ processed_text_cache' =
                        CachePut(processed_text_cache, audio_filename,
                                 [original_text |-> normalized_data.original_text,
                                  tts_text |-> normalized_data.tts_text,
                                  normalized_data |-> normalized_data,
                                  timing_method |-> "standard"])
                 /\ web_response' = [op |-> "synthesize", success |-> TRUE,
                                     audio_filename |-> audio_filename]
            ELSE /\ web_response' = [op |-> "synthesize", success |-> FALSE,
                                     audio_filename |-> ""]
                 /\ UNCHANGED <<processed_text_cache, audio_files>>
    /\ UNCHANGED <<normalize_vars, reconcile_vars, job_vars, backend_vars,
                   tts_vars>>

\* POST /api/synthesize-with-timing
SynthesizeSpeechWithTiming ==
    /\ \E text \in WebTexts, content_ok \in BOOLEAN, edge_available \in BOOLEAN,
          edge_ok \in BOOLEAN :
        \E normalized_data \in {ProcessForSyncResult(text)} :
        \E audio_filename \in {AudioFilename("edge_tts_timing", normalized_data.tts_text)},
           word_timings \in NativeTimings(normalized_data.tts_text) :
            IF content_ok /\ edge_available /\ edge_ok
            THEN /\ audio_files' = audio_files \cup {audio_filename}
                 /\ processed_text_cache' =
                        CachePut(processed_text_cache, audio_filename,
                                 [original_text |-> normalized_data.original_text,
                                  tts_text |-> normalized_data.tts_text,
                                  normalized_data |-> normalized_data,
                                  word_timings |-> word_timings,
                                  timing_method |-> "edge_tts_perfect"])
                 /\ web_response' = [op |-> "synthesize_with_timing", success |-> TRUE,
                                     audio_filename |-> audio_filename]
            ELSE /\ web_response' = [op |-> "synthesize_with_timing",
                                     success |-> FALSE, audio_filename |-> ""]
                 /\ UNCHANGED <<processed_text_cache, audio_files>>
    /\ UNCHANGED <<normalize_vars, reconcile_vars, job_vars, backend_vars,
                   tts_vars>>

\* POST /api/generate-video
WebGenerateVideo ==
    /\ \E audio_filename \in AudioFilenames, text \in VideoRequestTexts,
          synchronized_text \in BOOLEAN, env \in WebEnvs :
        \E cached_text_data \in {CacheGet(processed_text_cache, audio_filename)} :
            IF audio_filename \notin audio_files
            THEN /\ web_response' =
                        VideoResponse(audio_filename, FALSE, cached_text_data,
                                      <<"none", "">>, FALSE, <<>>)
                 /\ UNCHANGED processed_text_cache
            ELSE \E source \in
                      {IF cached_text_data # NoEntry
                       THEN <<"normalized_tts", Get(cached_text_data, "tts_text", text)>>
                       ELSE <<"fallback_normalized", ProcessForSyncResult(text).tts_text>>} :
                 \E result \in {GenerateVideoResult(source[2], synchronized_text, env)} :
                    /\ web_response' =
                           VideoResponse(audio_filename, result.success,
                                         cached_text_data, source,
                                         TimingAnalysisRuns(synchronized_text, env),
                                         result.subtitle.word_timings)
                    /\ processed_text_cache' =
                           IF result.success
                           THEN CacheDelete(processed_text_cache, audio_filename)
                           ELSE processed_text_cache
    /\ UNCHANGED <<audio_files, normalize_vars, reconcile_vars, job_vars,
                   backend_vars,
                   tts_vars>>

\* requests that belong to no tracked job
NextWeb ==
    \/ SynthesizeSpeech /\ UNCHANGED web_job_vars
    \/ SynthesizeSpeechWithTiming /\ UNCHANGED web_job_vars
    \/ WebGenerateVideo /\ UNCHANGED web_job_vars

SpecWeb == InitWeb /\ [][NextWeb]_vars

(***************************************************************************)
(* Two clients of the web service, each running the steps of one job, in   *)
(* any interleaving: the handlers are coroutines of one process and share  *)
(* the module-level processed_text_cache and the temp directory            *)
(***************************************************************************)
\* what a job keeps of the answer to its synthesize request
JobSynthesized(j) ==
    /\ web_job_pc' = [web_job_pc EXCEPT
                         ![j] = IF web_response'.success THEN "synthesized"
                                                          ELSE "failed"]
    /\ web_job_audio' = [web_job_audio EXCEPT ![j] = web_response'.audio_filename]
    /\ web_job_entry' = [web_job_entry EXCEPT
                            ![j] = CacheGet(processed_text_cache',
                                            web_response'.audio_filename)]
    /\ UNCHANGED web_job_video

\* a job's request to /api/synthesize
JobSynthesize ==
    \E j \in WebJobs :
        /\ web_job_pc[j] = "idle"
        /\ SynthesizeSpeech
        /\ JobSynthesized(j)

\* a job's request to /api/synthesize-with-timing
JobSynthesizeWithTiming ==
    \E j \in WebJobs :
        /\ web_job_pc[j] = "idle"
        /\ SynthesizeSpeechWithTiming
        /\ JobSynthesized(j)

\* a job's generate-video request for the audio filename it was given
JobGenerateVideo ==
    \E j \in WebJobs :
        /\ web_job_pc[j] = "synthesized"
        /\ WebGenerateVideo
        /\ web_response'.audio_filename = web_job_audio[j]
        /\ web_job_pc' = [web_job_pc EXCEPT ![j] = "done"]
        /\ web_job_video' = [web_job_video EXCEPT ![j] = web_response']
        /\ UNCHANGED <<web_job_audio, web_job_entry>>

NextWebJobs == JobSynthesize \/ JobSynthesizeWithTiming \/ JobGenerateVideo

SpecWebJobs == InitWeb /\ [][NextWebJobs]_vars

(***************************************************************************)
(* The timing backends of one process: WhisperXAligner (whisperx_aligner), *)
(* WhisperAnalyzer (whisper_analyzer), FastWhisperAnalyzer                 *)
(* (fast_whisper_analyzer), WhisperS2TAnalyzer (whispers2t_analyzer) and   *)
(* the segment analysis VideoGenerator runs itself                         *)
(* (_get_whispers2t_segments).  A process holds one instance of a backend  *)
(* and calls its align operation again and again.                          *)
(***************************************************************************)
Backends ==
    {"WhisperXAligner", "WhisperAnalyzer", "FastWhisperAnalyzer", "WhisperS2TAnalyzer",
     "VideoGenerator"}

\* what one call of a _load_model / _load_models did
LoadOutcome(loaded, attempted, failed) ==
    [loaded |-> loaded, attempted |-> attempted, failed |-> failed]

\* _load_model of WhisperAnalyzer, FastWhisperAnalyzer and WhisperS2TAnalyzer:
\* nothing is done when the model is loaded or the library is missing
LoadModel(loaded, available, load_ok) ==
    IF loaded \/ ~available THEN LoadOutcome(loaded, FALSE, FALSE)
    ELSE IF load_ok THEN LoadOutcome(TRUE, TRUE, FALSE)
    ELSE LoadOutcome(FALSE, TRUE, TRUE)

\* WhisperXAligner._load_models
LoadModels(loaded, load_ok) ==
    IF loaded THEN LoadOutcome(TRUE, FALSE, FALSE)
    ELSE IF load_ok THEN LoadOutcome(TRUE, TRUE, FALSE)
    ELSE LoadOutcome(FALSE, TRUE, TRUE)

\* no load was asked for
NoLoad(loaded) == LoadOutcome(loaded, FALSE, FALSE)

\* the align operation returns (or raises): the instance's _model_loaded, the
\* counts of load attempts and of loaded models, and the record of the call
Returned(file_exists, load, outcome) ==
    /\ align_calls' = align_calls + 1
    /\ model_loaded' = load.loaded
    /\ load_attempts' = load_attempts + (IF load.attempted THEN 1 ELSE 0)
    /\ models_loaded' = models_loaded + (IF load.attempted /\ ~load.failed THEN 1 ELSE 0)
    /\ load_failed' = (load_failed \/ load.failed)
    /\ align_result' =
           [outcome |-> outcome, file_exists |-> file_exists,
            attempted_load |-> load.attempted,
            load_failed |-> load.failed, failed_before |-> load_failed,
            loaded_before |-> models_loaded > 0]
    /\ UNCHANGED <<backend, library_available, librosa_available>>

\* WhisperS2TAnalyzer.analyze_audio(audio_path)
WhisperS2TAnalyzeAudio ==
    /\ backend = "WhisperS2TAnalyzer"
    /\ align_calls < MaxAlignCalls
    /\ \E file_exists \in BOOLEAN, load_ok \in BOOLEAN, transcribe_ok \in BOOLEAN :
        IF ~library_available \/ ~file_exists
        THEN Returned(file_exists, NoLoad(model_loaded), "empty")
        ELSE \E load \in {LoadModel(model_loaded, library_available, load_ok)} :
                IF ~load.loaded THEN Returned(file_exists, load, "empty")
                ELSE IF transcribe_ok THEN Returned(file_exists, load, "timings")
                ELSE Returned(file_exists, load, "empty")
    /\ UNCHANGED <<normalize_vars, reconcile_vars, job_vars, web_vars, web_job_vars,
                   tts_vars>>

\* FastWhisperAnalyzer.analyze_audio(audio_path)
FastWhisperAnalyzeAudio ==
    /\ backend = "FastWhisperAnalyzer"
    /\ align_calls < MaxAlignCalls
    /\ \E file_exists \in BOOLEAN, load_ok \in BOOLEAN, transcribe_ok \in BOOLEAN :
        IF ~library_available \/ ~file_exists
        THEN Returned(file_exists, NoLoad(model_loaded), "empty")
        ELSE \E load \in {LoadModel(model_loaded, library_available, load_ok)} :
                IF ~load.loaded THEN Returned(file_exists, load, "empty")
                ELSE IF transcribe_ok THEN Returned(file_exists, load, "timings")
                ELSE Returned(file_exists, load, "empty")
    /\ UNCHANGED <<normalize_vars, reconcile_vars, job_vars, web_vars, web_job_vars,
                   tts_vars>>

\* WhisperAnalyzer.analyze_audio(audio_path): _load_model re-raises a failed
\* load, and is called outside the try block
WhisperAnalyzeAudio ==
    /\ backend = "WhisperAnalyzer"
    /\ align_calls < MaxAlignCalls
    /\ \E file_exists \in BOOLEAN, load_ok \in BOOLEAN, transcribe_ok \in BOOLEAN :
        IF ~library_available \/ ~file_exists
        THEN Returned(file_exists, NoLoad(model_loaded), "empty")
        ELSE \E load \in {LoadModel(model_loaded, library_available, load_ok)} :
                IF load.failed THEN Returned(file_exists, load, "raised")
                ELSE IF transcribe_ok THEN Returned(file_exists, load, "timings")
                ELSE Returned(file_exists, load, "empty")
    /\ UNCHANGED <<normalize_vars, reconcile_vars, job_vars, web_vars, web_job_vars,
                   tts_vars>>

\* get_word_level_timestamps(audio_path) of the aligner create_aligner
\* returns: WhisperXAligner, or WhisperXFallback without the library
WhisperXGetWordLevelTimestamps ==
    /\ backend = "WhisperXAligner"
    /\ align_calls < MaxAlignCalls
    /\ \E file_exists \in BOOLEAN, load_ok \in BOOLEAN, transcribe_ok \in BOOLEAN :
        IF ~library_available
        THEN IF ~librosa_available \/ ~file_exists
             THEN Returned(file_exists, NoLoad(model_loaded), "raised")
             ELSE Returned(file_exists, NoLoad(model_loaded), "timings")
        ELSE IF ~file_exists THEN Returned(file_exists, NoLoad(model_loaded), "raised")
        ELSE \E load \in {LoadModels(model_loaded, load_ok)} :
                IF ~load.loaded THEN Returned(file_exists, load, "empty")
                ELSE IF transcribe_ok THEN Returned(file_exists, load, "timings")
                ELSE Returned(file_exists, load, "raised")
    /\ UNCHANGED <<normalize_vars, reconcile_vars, job_vars, web_vars, web_job_vars,
                   tts_vars>>

\* VideoGenerator._analyze_audio_for_word_timings up to the segments:
\* _get_whispers2t_segments calls load_model itself, on every call (the
\* audio file exists: generate_video has probed it)
VideoGeneratorGetSegments ==
    /\ backend = "VideoGenerator"
    /\ align_calls < MaxAlignCalls
    /\ \E load_ok \in BOOLEAN, transcribe_ok \in BOOLEAN :
        IF ~library_available THEN Returned(TRUE, NoLoad(model_loaded), "empty")
        ELSE IF ~load_ok THEN Returned(TRUE, LoadOutcome(model_loaded, TRUE, TRUE), "empty")
        ELSE IF transcribe_ok
        THEN Returned(TRUE, LoadOutcome(model_loaded, TRUE, FALSE), "timings")
        ELSE Returned(TRUE, LoadOutcome(model_loaded, TRUE, FALSE), "empty")
    /\ UNCHANGED <<normalize_vars, reconcile_vars, job_vars, web_vars, web_job_vars,
                   tts_vars>>

\* a process with one backend; its library is installed or not
InitBackends ==
    /\ backend \in Backends
    /\ library_available \in BOOLEAN
    /\ librosa_available \in BOOLEAN
    /\ backend # "WhisperXAligner" => librosa_available
    /\ model_loaded = FALSE
    /\ align_calls = 0
    /\ load_attempts = 0
    /\ models_loaded = 0
    /\ load_failed = FALSE
    /\ align_result = NoAlignResult
    /\ NormalizeIdle
    /\ ReconcileIdle
    /\ JobIdle
    /\ WebIdle
    /\ WebJobsIdle
    /\ TtsIdle

NextBackends ==
    \/ WhisperS2TAnalyzeAudio
    \/ FastWhisperAnalyzeAudio
    \/ WhisperAnalyzeAudio
    \/ WhisperXGetWordLevelTimestamps
    \/ VideoGeneratorGetSegments

SpecBackends == InitBackends /\ [][NextBackends]_vars

(***************************************************************************)
(* The TTS engines (src/generators/tts_engine.py, hybrid_tts.py and the    *)
(* providers): provider selection, synthesize_with_fallback and the        *)
(* provider choice of /api/synthesize                                      *)
(***************************************************************************)
\* the providers _load_providers may load, in dict insertion order
PotentialProviders == <<"gtts", "coqui", "pyttsx3", "edge_tts">>

TTSProviders == {PotentialProviders[i] : i \in DOMAIN PotentialProviders}

\* get_voices of GTTSProvider
GttsVoices ==
    {"en", "en-uk", "en-au", "en-ca", "es", "fr", "de", "it", "pt", "ru", "ja",
     "ko", "zh"}

\* _get_default_voices of EdgeTTSProvider (what get_voices returns inside a
\* running event loop)
EdgeDefaultVoices ==
    {"en-US-AriaNeural", "en-US-DavisNeural", "en-US-JennyNeural",
     "en-US-GuyNeural", "en-GB-SoniaNeural", "en-GB-RyanNeural",
     "en-AU-NatashaNeural", "en-AU-WilliamNeural"}

\* get_voices of CoquiProvider
CoquiVoices ==
    {"tts_models/en/ljspeech/tacotron2-DDC", "tts_models/en/ljspeech/glow-tts",
     "tts_models/en/ljspeech/speedy-speech", "tts_models/en/vctk/vits",
     "tts_models/en/sam/tacotron-DDC",
     "tts_models/multilingual/multi-dataset/your_tts"}

\* provider.get_voices(); pyttsx3 lists the voices installed on the system,
\* Edge TTS the voices of the service or its default voices
GetVoices(engine, provider) ==
    CASE provider = "gtts" -> GttsVoices
      [] provider = "edge_tts" -> engine.edge_voices
      [] provider = "coqui" -> CoquiVoices
      [] provider = "pyttsx3" -> engine.system_voices

\* provider.get_max_text_length()
GetMaxTextLength(provider) ==
    CASE provider = "gtts" -> 5000
      [] provider = "edge_tts" -> 10000
      [] provider = "coqui" -> 10000
      [] provider = "pyttsx3" -> 3000

\* provider.get_quality_score(), in hundredths
GetQualityScore(provider) ==
    CASE provider = "gtts" -> 75
      [] provider = "edge_tts" -> 90
      [] provider = "coqui" -> 85
      [] provider = "pyttsx3" -> 50

\* BaseTTSProvider.validate_request; a text is given by its length and its
\* length once stripped
ValidateRequest(engine, provider, request) ==
    /\ request.text.stripped_length > 0
    /\ request.text.length <= GetMaxTextLength(provider)
    /\ request.voice = "" \/ request.voice \in GetVoices(engine, provider)

RECURSIVE FirstPreferred(_, _, _)
\* the first preferred provider that is loaded and accepts the request
FirstPreferred(engine, request, i) ==
    IF i > Len(request.provider_preferences) THEN "none"
    ELSE IF /\ request.provider_preferences[i] \in engine.providers
            /\ ValidateRequest(engine, request.provider_preferences[i], request)
         THEN request.provider_preferences[i]
         ELSE FirstPreferred(engine, request, i + 1)

\* the loaded providers that accept the request
AvailableProviders(engine, request) ==
    {p \in engine.providers : ValidateRequest(engine, p, request)}

\* the accepting provider of the highest quality score (the sort is stable,
\* so among equal scores the one loaded first)
BestAvailable(engine, request) ==
    CHOOSE p \in AvailableProviders(engine, request) :
        \A q \in AvailableProviders(engine, request) :
            \/ GetQualityScore(q) < GetQualityScore(p)
            \/ /\ GetQualityScore(q) = GetQualityScore(p)
               /\ \E i, k \in DOMAIN PotentialProviders :
                      /\ PotentialProviders[i] = p
                      /\ PotentialProviders[k] = q
                      /\ i <= k

\* TTSEngine.select_best_provider: the provider returned, and whether the
\* fallback over all loaded providers was entered
SelectBestProvider(engine, request) ==
    IF FirstPreferred(engine, request, 1) # "none"
    THEN [selected |-> FirstPreferred(engine, request, 1), fell_through |-> FALSE]
    ELSE IF AvailableProviders(engine, request) = {}
         THEN [selected |-> "none", fell_through |-> TRUE]
         ELSE [selected |-> BestAvailable(engine, request), fell_through |-> TRUE]

\* a failed TTSResult
Failure(provider_used, error_message) ==
    [success |-> FALSE, provider_used |-> provider_used,
     error_message |-> error_message]

\* TTSEngine.synthesize; outcome is what the selected provider's synthesize
\* does: "ok", "failed" (a failed TTSResult) or "raised"
Synthesize(engine, request, outcome) ==
    IF engine.providers = {}
    THEN [selection |-> [selected |-> "none", fell_through |-> FALSE],
          result |-> Failure("none", "No TTS providers available")]
    ELSE The({[selection |-> selection,
               result |->
                   IF selection.selected = "none"
                   THEN Failure("none", "No suitable provider found for request")
                   ELSE IF outcome = "ok"
                        THEN [success |-> TRUE, provider_used |-> selection.selected,
                              error_message |-> "none"]
                        ELSE IF outcome = "failed"
                             THEN Failure(selection.selected, "synthesis failed")
                             ELSE Failure(selection.selected, "exception")] :
              selection \in {SelectBestProvider(engine, request)}})

\* HybridTTSEngine.get_strategy_for_content: the provider priorities; the
\* scores of the content analysis are in hundredths
GetStrategyForContent(content_analysis) ==
    IF content_analysis.quality_score >= 80
    THEN [provider_priorities |-> <<"edge_tts", "coqui", "gtts", "pyttsx3">>,
          quality_threshold |-> 80]
    ELSE IF content_analysis.emotional_score >= 60
    THEN [provider_priorities |-> <<"edge_tts", "coqui", "gtts", "pyttsx3">>,
          quality_threshold |-> 70]
    ELSE IF content_analysis.word_count > 400
    THEN [provider_priorities |-> <<"gtts", "edge_tts", "coqui", "pyttsx3">>,
          quality_threshold |-> 60]
    ELSE [provider_priorities |-> <<"gtts", "edge_tts", "pyttsx3", "coqui">>,
          quality_threshold |-> 60]

\* _select_edge_voice
SelectEdgeVoice(story_type, emotion) ==
    CASE story_type = "aita" /\ emotion = "neutral" -> "en-US-AriaNeural"
      [] story_type = "aita" /\ emotion = "angry" -> "en-US-DavisNeural"
      [] story_type = "relationship" /\ emotion = "sad" -> "en-US-JennyNeural"
      [] story_type = "relationship" /\ emotion = "happy" -> "en-US-AriaNeural"
      [] story_type = "workplace" /\ emotion = "professional" -> "en-GB-SoniaNeural"
      [] story_type = "family" /\ emotion = "warm" -> "en-AU-NatashaNeural"
      [] story_type = "tifu" /\ emotion = "embarrassed" -> "en-US-GuyNeural"
      [] OTHER ->
            CASE story_type = "aita" -> "en-US-AriaNeural"
              [] story_type = "relationship" -> "en-US-JennyNeural"
              [] story_type = "workplace" -> "en-GB-SoniaNeural"
              [] story_type = "family" -> "en-AU-NatashaNeural"
              [] story_type = "tifu" -> "en-US-GuyNeural"
              [] OTHER -> "en-US-AriaNeural"

\* _select_gtts_voice
SelectGttsVoice(story_type) ==
    CASE story_type = "workplace" -> "en-uk"
      [] story_type = "family" -> "en-au"
      [] story_type = "tifu" -> "en-ca"
      [] OTHER -> "en"

\* _select_coqui_voice
SelectCoquiVoice(story_type, emotion) ==
    IF emotion \in {"angry", "sad", "surprised"} THEN "tts_models/en/vctk/vits"
    ELSE IF story_type \in {"aita", "workplace"}
         THEN "tts_models/en/ljspeech/glow-tts"
         ELSE "tts_models/en/ljspeech/tacotron2-DDC"

\* _select_system_voice
SelectSystemVoice(story_type) ==
    IF story_type \in {"workplace", "aita"} THEN "female" ELSE "male"

\* a request without a voice, which every provider's voice check accepts
NoVoiceForContent(engine, content_analysis, provider) == ""

\* HybridTTSEngine.select_voice_for_content
SelectVoiceForContent(engine, content_analysis, provider) ==
    IF provider \notin engine.providers THEN "default"
    ELSE CASE provider = "edge_tts" ->
                  SelectEdgeVoice(content_analysis.story_type,
                                  content_analysis.dominant_emotion)
           [] provider = "gtts" -> SelectGttsVoice(content_analysis.story_type)
           [] provider = "coqui" ->
                  SelectCoquiVoice(content_analysis.story_type,
                                   content_analysis.dominant_emotion)
           [] provider = "pyttsx3" -> SelectSystemVoice(content_analysis.story_type)
           [] OTHER -> "default"

\* one pass of the loop of synthesize_with_fallback for a loaded provider:
\* the request built for it and what TTSEngine.synthesize returned
Attempt(engine, text, content_analysis, provider, outcome) ==
    The({[provider |-> provider, voice |-> request.voice,
          selection |-> Synthesize(engine, request, outcome).selection,
          result |-> Synthesize(engine, request, outcome).result] :
         request \in {[text |-> text,
                       voice |-> SelectVoiceForContent(engine, content_analysis,
                                                       provider),
                       provider_preferences |-> <<provider>>]}})

RECURSIVE AttemptsPastSuccess(_, _, _, _, _, _)
\* the loop going on to the next provider after a success
AttemptsPastSuccess(engine, text, content_analysis, priorities, i, outcome) ==
    IF i > Len(priorities) THEN <<>>
    ELSE IF priorities[i] \notin engine.providers
         THEN AttemptsPastSuccess(engine, text, content_analysis, priorities, i + 1,
                                  outcome)
         ELSE <<Attempt(engine, text, content_analysis, priorities[i], outcome[i])>>
              \o AttemptsPastSuccess(engine, text, content_analysis, priorities,
                                     i + 1, outcome)

RECURSIVE AttemptsFrom(_, _, _, _, _, _)
\* the loop of synthesize_with_fallback from priority i on: the attempts made
AttemptsFrom(engine, text, content_analysis, priorities, i, outcome) ==
    IF i > Len(priorities) THEN <<>>
    ELSE IF priorities[i] \notin engine.providers
         THEN AttemptsFrom(engine, text, content_analysis, priorities, i + 1, outcome)
         ELSE \* bind the attempt once
              The({IF attempt.result.success THEN <<attempt>>
                   ELSE <<attempt>> \o AttemptsFrom(engine, text, content_analysis,
                                                     priorities, i + 1, outcome) :
                   attempt \in {Attempt(engine, text, content_analysis,
                                        priorities[i], outcome[i])}})

\* HybridTTSEngine.synthesize_with_fallback: the attempts and the result
SynthesizeWithFallback(engine, text, content_analysis, outcome) ==
    The({[attempts |-> attempts,
          result |-> IF attempts # <<>> /\ attempts[Len(attempts)].result.success
                     THEN attempts[Len(attempts)].result
                     ELSE Failure("none", "All TTS providers failed")] :
         attempts \in {AttemptsFrom(engine, text, content_analysis,
                          GetStrategyForContent(content_analysis).provider_priorities,
                          1, outcome)}})

\* the texts to speak: their length and their length once stripped
TtsTexts ==
    {[length |-> 9, stripped_length |-> 9], [length |-> 3, stripped_length |-> 0],
     [length |-> 6000, stripped_length |-> 6000],
     [length |-> 12000, stripped_length |-> 11998]}

\* story types and emotions of the content
StoryTypes == {"general", "aita", "workplace"}

\* content analyses that select each of the four strategies
ContentAnalyses ==
    {[quality_score |-> q[1], emotional_score |-> q[2], word_count |-> q[3],
      story_type |-> story_type, dominant_emotion |-> emotion] :
        q \in {<<80, 30, 200>>, <<50, 60, 200>>, <<50, 30, 401>>, <<60, 30, 200>>},
        story_type \in StoryTypes, emotion \in {"neutral", "angry"}}

\* what the provider of each pass of the loop does
TtsOutcomes == [1..4 -> {"ok", "failed", "raised"}]

\* the provider field of a synthesize request
RequestProviders == {"auto", "gtts", "edge_tts", "coqui", "pyttsx3"}

\* TTSEngine._load_providers: any of the providers may be unavailable
InitTts ==
    /\ tpc = "idle"
    /\ tts_engine \in [providers : SUBSET TTSProviders,
                        system_voices : {{"default"}, {"english", "english-us"}},
                        edge_voices : {EdgeDefaultVoices,
                                       EdgeDefaultVoices \ {"en-US-DavisNeural"}}]
    /\ tts_call = [op |-> "none"]
    /\ tts_attempts = <<>>
    /\ tts_result = NoTTSResult
    /\ NormalizeIdle
    /\ ReconcileIdle
    /\ JobIdle
    /\ WebIdle
    /\ BackendsIdle
    /\ WebJobsIdle

\* a call of HybridTTSEngine.synthesize_with_fallback
CallSynthesizeWithFallback ==
    /\ tpc = "idle"
    /\ \E text \in TtsTexts, content_analysis \in ContentAnalyses,
          outcome \in TtsOutcomes :
        \E r \in {SynthesizeWithFallback(tts_engine, text, content_analysis, outcome)} :
            /\ tts_call' = [op |-> "synthesize_with_fallback", provider |-> "auto",
                            text |-> text, content_analysis |-> content_analysis,
                            strategy |-> GetStrategyForContent(content_analysis)]
            /\ tts_attempts' = r.attempts
            /\ tts_result' = r.result
    /\ tpc' = "done"
    /\ UNCHANGED <<tts_engine, normalize_vars, reconcile_vars, job_vars, web_vars,
                   backend_vars, web_job_vars>>

\* the provider map of synthesize_speech
ProviderMap == {"gtts", "edge_tts", "coqui", "pyttsx3"}

\* the strategy object synthesize_speech holds after forcing a provider
ForcedStrategy(provider, content_analysis) ==
    IF provider \in ProviderMap
    THEN [GetStrategyForContent(content_analysis) EXCEPT
              !.provider_priorities = <<provider>>]
    ELSE GetStrategyForContent(content_analysis)

\* POST /api/synthesize: the choice of the provider and the synthesis
SynthesizeSpeechWithProvider ==
    /\ tpc = "idle"
    /\ \E provider \in RequestProviders,
          text \in {t \in TtsTexts : t.stripped_length > 0},
          quality_score \in {60, 80}, story_type \in StoryTypes,
          word_count \in {200, 401}, outcome \in TtsOutcomes :
        \E content_analysis \in
                {[quality_score |-> quality_score, story_type |-> story_type,
                  word_count |-> word_count, emotional_score |-> 60,
                  dominant_emotion |-> "neutral"]} :
        \E r \in {SynthesizeWithFallback(tts_engine, text, content_analysis, outcome)} :
            /\ tts_call' = [op |-> "synthesize_speech", provider |-> provider,
                            text |-> text, content_analysis |-> content_analysis,
                            strategy |-> IF provider # "auto"
                                         THEN ForcedStrategy(provider, content_analysis)
                                         ELSE GetStrategyForContent(content_analysis)]
            /\ tts_attempts' = r.attempts
            /\ tts_result' = r.result
    /\ tpc' = "done"
    /\ UNCHANGED <<tts_engine, normalize_vars, reconcile_vars, job_vars, web_vars,
                   backend_vars, web_job_vars>>

NextTts == CallSynthesizeWithFallback \/ SynthesizeSpeechWithProvider

SpecTts == InitTts /\ [][NextTts]_vars

(***************************************************************************)
(* Properties of the reconciliation (specification SpecReconcile)          *)
(***************************************************************************)
\* C1 (as stated): with a positive audio duration, the word timings that
\* _analyze_audio_for_word_timings returns for a tts_text (from segment
\* anchors or from no anchors at all) have exactly one entry per
\* whitespace-separated word of tts_text, in the same order.
C1_Coverage ==
    (rpc = "done" /\ reconcile_anchors.kind = "segments"
        /\ RatLT(Whole(0), reconcile_duration)) =>
        /\ Len(reconcile_timings) = Len(Split(reconcile_text))
        /\ \A i \in 1..Len(reconcile_timings) :
               Contains(Split(reconcile_text)[i], reconcile_timings[i].word)

\* C2 (as stated): on every reconciliation path each entry starts no earlier
\* than the previous entry ends, whatever anchors the recognizer supplied.
C2_Monotonicity ==
    rpc = "done" =>
        \A i \in 1..(Len(reconcile_timings) - 1) :
            RatLE(reconcile_timings[i].end, reconcile_timings[i + 1].start)

\* C3 (as stated): on every reconciliation path the last entry ends no later
\* than the audio's total duration.
C3_DurationBound ==
    (rpc = "done" /\ RatLT(Whole(0), reconcile_duration) /\ Len(reconcile_timings) > 0) =>
        RatLE(reconcile_timings[Len(reconcile_timings)].end, reconcile_duration)

(***************************************************************************)
(* Properties of the video job (specification Spec)                        *)
(***************************************************************************)
\* C4 (as stated): a synchronized generate_video job that reports success
\* rendered a subtitle track with a timing entry for every spoken word; it
\* never succeeds with static text.
C4_AllOrNothing ==
    (jpc = "done" /\ job.entry = "generate_video" /\ job.synchronized_text
        /\ job_result.success) =>
        /\ job_result.rendered = "subtitles"
        /\ Len(job_result.subtitle.word_timings)
               = Len(Split(job_result.subtitle.tts_text))

\* C5 (as stated): when the audio duration is <= 0 or cannot be determined,
\* either entry point reports failure with an error message and produces no
\* word timings, no subtitle file and no video.
C5_DegenerateDurationFatal ==
    (jpc = "done" /\ RatLE(job.audio_duration, Whole(0))) =>
        /\ ~job_result.success
        /\ job_result.error_message # ""
        /\ ~job_result.video
        /\ ~job_result.subtitle.written
        /\ Len(job_result.subtitle.word_timings) = 0

(***************************************************************************)
(* Properties of the normalizer (specification SpecNormalize)              *)
(***************************************************************************)
\* C6 (as stated): every mapping's original offsets are valid indices into
\* original_text and original_text[original_start:original_end] is the
\* source substring that was replaced.
C6_OriginalRoundTrip ==
    npc # "input" =>
        \A k \in 1..Len(normalized.word_mappings) :
            LET m == normalized.word_mappings[k]
            IN  /\ 0 <= m.original_start
                /\ m.original_start <= m.original_end
                /\ m.original_end <= Len(original_text)
                /\ Slice(original_text, m.original_start, m.original_end)
                       = m.original_text

\* C7 (as stated): every mapping's tts offsets are valid indices into the
\* final tts_text and tts_text[tts_start:tts_end] is the mapping's tts_text.
C7_TtsOffsets ==
    npc # "input" =>
        \A k \in 1..Len(normalized.word_mappings) :
            LET m == normalized.word_mappings[k]
            IN  /\ 0 <= m.tts_start
                /\ m.tts_start <= m.tts_end
                /\ m.tts_end <= Len(normalized.tts_text)
                /\ Slice(normalized.tts_text, m.tts_start, m.tts_end) = m.tts_text

\* C8 (as stated): word_mappings is ordered by increasing original offset
\* and no two original spans overlap.
C8_MappingOrder ==
    npc # "input" =>
        \A k \in 1..(Len(normalized.word_mappings) - 1) :
            normalized.word_mappings[k].original_end
                <= normalized.word_mappings[k + 1].original_start

\* C9 (as stated): normalizing the tts_text of a previous result again yields
\* no age/gender match and no currency match.
C9_Idempotence ==
    npc = "renormalized" =>
        \A k \in 1..Len(renormalized.word_mappings) :
            renormalized.word_mappings[k].transformation_type
                \notin {"age_gender", "currency"}

\* the tokens of a text by their role in scenario A
IsAgeToken(w) == AgeGenderMatchLen(w, 1) = Len(w) /\ Len(w) > 0

IsDollarAmount(w) ==
    /\ Len(w) >= 2
    /\ At(w, 1) = "$"
    /\ \A i \in 2..Len(w) : IsDigit(At(w, i)) \/ At(w, i) \in {",", "."}
    /\ IsDigit(At(w, 2)) /\ IsDigit(At(w, Len(w)))

IsPlainWord(w) ==
    /\ \A i \in 1..Len(w) : At(w, i) \in LowerChars
    /\ ~\E e \in 1..Len(ordinals) : ordinals[e][1] = w

\* what scenario A expects of one token
ExpectedSpoken(w) ==
    IF IsAgeToken(w) THEN AgeGenderReplacement(w)
    ELSE IF IsDollarAmount(w) THEN Slice(w, 1, Len(w)) \o " dollars"
    ELSE w

RECURSIVE JoinFrom(_, _)
JoinFrom(ws, k) ==
    IF k > Len(ws) THEN ""
    ELSE IF k = Len(ws) THEN ws[k]
    ELSE ws[k] \o " " \o JoinFrom(ws, k + 1)

\* " ".join(ws)
Join(ws) == JoinFrom(ws, 1)

\* a text of plain lower-case words, one age/gender token and one dollar
\* amount, separated by single blanks, with a cue word somewhere
IsScenarioAText(text) ==
    LET ws == Split(text)
    IN  /\ Join(ws) = text
        /\ IsAgeContext(text)
        /\ Cardinality({k \in 1..Len(ws) : IsAgeToken(ws[k])}) = 1
        /\ Cardinality({k \in 1..Len(ws) : IsDollarAmount(ws[k])}) = 1
        /\ \A k \in 1..Len(ws) :
              IsAgeToken(ws[k]) \/ IsDollarAmount(ws[k]) \/ IsPlainWord(ws[k])

\* C10 (as stated): on such a text the token becomes "<age> female|male", the
\* amount "<amount> dollars", the rest is unchanged, and exactly two mappings
\* are returned, one age_gender and one currency.
C10_ScenarioA ==
    (npc # "input" /\ IsScenarioAText(original_text)) =>
        LET ws == Split(original_text)
        IN  /\ normalized.tts_text = Join([k \in 1..Len(ws) |-> ExpectedSpoken(ws[k])])
            /\ Len(normalized.word_mappings) = 2
            /\ {normalized.word_mappings[k].transformation_type : k \in 1..2}
                   = {"age_gender", "currency"}

(***************************************************************************)
(* Properties of the word-anchor reconciliation (specification             *)
(* SpecReconcile, action AlignWords)                                       *)
(***************************************************************************)
\* the call AlignWords made had as many anchors as TTS words
IdentityCase ==
    /\ rpc = "done"
    /\ reconcile_anchors.kind = "words"
    /\ Len(reconcile_anchors.whisper_timings) = Len(Split(reconcile_text))

\* C11: when the number of word anchors equals the number of TTS words, entry
\* i of the result is TTS word i with the start and the end of anchor i, in
\* the same order and with no re-timing.
C11_IdentityReconciliation ==
    IdentityCase =>
        /\ Len(reconcile_timings) = Len(reconcile_anchors.whisper_timings)
        /\ \A i \in 1..Len(reconcile_timings) :
              /\ reconcile_timings[i].word = Split(reconcile_text)[i]
              /\ reconcile_timings[i].start = reconcile_anchors.whisper_timings[i].start
              /\ reconcile_timings[i].end = reconcile_anchors.whisper_timings[i].end

\* three words on three anchors of unequal length, two of them overlapping
C11_Witness ==
    /\ IdentityCase
    /\ reconcile_text = "one two three"
    /\ reconcile_anchors.whisper_timings =
           <<Timing("uh", Whole(0), Whole(1)), Timing("um", Whole(1), Whole(4)),
             Timing("huh", Whole(1), Whole(2))>>

\* the reconciliation ran without any timing anchor: the backend was
\* unavailable, the analysis failed or kept no segment, or the list of word
\* anchors was empty
NoAnchorsCase ==
    /\ rpc = "done"
    /\ \/ /\ reconcile_anchors.kind = "segments"
          /\ \/ ~reconcile_anchors.available
             \/ GetWhispers2tSegments(reconcile_anchors.recognizer) = <<>>
       \/ /\ reconcile_anchors.kind = "words"
          /\ reconcile_anchors.whisper_timings = <<>>

\* C12 (as stated): without anchors the result is the phonetic estimator's,
\* computed for the audio's own duration, on every path that receives an
\* empty anchor list.
C12_NoAnchors ==
    NoAnchorsCase =>
        reconcile_timings =
            CalculateWordTimingsEstimated(reconcile_text, reconcile_duration)

\* the phonetic estimator produced the result, for a text with at least one
\* word and an audio of positive duration
EstimatorCase ==
    /\ rpc = "done"
    /\ reconcile_path = "estimated"
    /\ FindAll("word", reconcile_text) # <<>>
    /\ RatLT(Whole(0), reconcile_duration)

\* C13 (as stated): the estimator's output starts at 0, each word ends where
\* the next one starts, and the last word ends at the audio's duration.
C13_EstimatorExactCoverage ==
    EstimatorCase =>
        /\ reconcile_timings # <<>>
        /\ reconcile_timings[1].start = Whole(0)
        /\ \A i \in 1..(Len(reconcile_timings) - 1) :
              reconcile_timings[i].end = reconcile_timings[i + 1].start
        /\ reconcile_timings[Len(reconcile_timings)].end = reconcile_duration

(***************************************************************************)
(* Properties of the segment-anchor reconciliation (specification          *)
(* SpecReconcile, action AnalyzeAudio)                                     *)
(***************************************************************************)
\* the result was computed from the recognizer's segments
SegmentsCase ==
    /\ rpc = "done"
    /\ reconcile_path = "segments"

NativeTimingsCase ==
    /\ web_response.op = "generate_video"
    /\ "word_timings" \in DOMAIN web_response.cached

C20_CacheLifetime ==
    web_response.op = "generate_video" =>
        web_response.audio_filename \notin DOMAIN processed_text_cache

(***************************************************************************)
(* Properties of the timing backends (specification SpecBackends)          *)
(***************************************************************************)
\* the last align operation, on an existing audio file, ran without the
\* library or failed to load its model
MissingDependencyCase ==
    /\ align_result.outcome # "none"
    /\ align_result.file_exists
    /\ ~library_available \/ align_result.load_failed

\* C16 (as stated): whatever the backend, an align operation that finds the
\* library missing or fails to load the model returns to its caller; it
\* does not raise.
C16_AlignNeverRaises ==
    MissingDependencyCase => align_result.outcome # "raised"

\* C17 (as stated): once a model load has failed, no later align operation
\* of the process attempts a load; it returns an empty result.
C17_LoadFailureCached ==
    (align_result.outcome # "none" /\ align_result.failed_before) =>
        /\ ~align_result.attempted_load
        /\ align_result.outcome = "empty"

\* C18 (as stated): over all the align operations of a process the
\* recognition model is loaded at most once.
C18_LoadOnce ==
    models_loaded <= 1

(***************************************************************************)
(* Properties of the subtitle file (specification Spec)                    *)
(***************************************************************************)
\* the value of a decimal digit
DigitValue(c) == CHOOSE v \in 0..9 : At("0123456789", v + 1) = c

\* s has the shape HH:MM:SS,mmm
IsSrtTimestamp(s) ==
    /\ Len(s) = 12
    /\ At(s, 3) = ":" /\ At(s, 6) = ":" /\ At(s, 9) = ","
    /\ \A k \in {1, 2, 4, 5, 7, 8, 10, 11, 12} : IsDigit(At(s, k))

\* the milliseconds an HH:MM:SS,mmm timestamp denotes
TimestampMillis(s) ==
    ((DigitValue(At(s, 1)) * 10 + DigitValue(At(s, 2))) * 3600
     + (DigitValue(At(s, 4)) * 10 + DigitValue(At(s, 5))) * 60
     + DigitValue(At(s, 7)) * 10 + DigitValue(At(s, 8))) * 1000
    + DigitValue(At(s, 10)) * 100 + DigitValue(At(s, 11)) * 10 + DigitValue(At(s, 12))

\* s is an HH:MM:SS,mmm timestamp within a millisecond of the time t
RendersTime(s, t) ==
    /\ IsSrtTimestamp(s)
    /\ RatLE(RatSub(t, Rat(1, 1000)), Rat(TimestampMillis(s), 1000))
    /\ RatLE(Rat(TimestampMillis(s), 1000), RatAdd(t, Rat(1, 1000)))

\* a subtitle file was written by the job
SubtitleWritten ==
    /\ jpc = "done"
    /\ job_result.subtitle.written

\* C19: the SRT document written for n word timings has exactly n entries, in
\* input order: entry i is numbered i, carries word i in upper case, and its
\* start and end are those of timing i rendered as HH:MM:SS,mmm.
C19_StraightSerialization ==
    SubtitleWritten =>
        \E word_timings \in {job_result.subtitle.word_timings} :
        \E srt \in {job_result.subtitle.srt} :
            /\ Len(srt) = 4 * Len(word_timings)
            /\ \A i \in 1..Len(word_timings) :
                  /\ srt[4 * i - 3] = IntToStr(i)
                  /\ Len(srt[4 * i - 2]) = 29
                  /\ RendersTime(SubSeq(srt[4 * i - 2], 1, 12), word_timings[i].start)
                  /\ SubSeq(srt[4 * i - 2], 13, 17) = " --> "
                  /\ RendersTime(SubSeq(srt[4 * i - 2], 18, 29), word_timings[i].end)
                  /\ srt[4 * i - 1] = ToUpper(word_timings[i].word)
                  /\ srt[4 * i] = ""

\* generate_video wrote the captions of at least three lower-case words, one
\* of them starting at a fraction of a second
C19_Witness ==
    /\ SubtitleWritten
    /\ job.entry = "generate_video"
    /\ Len(job_result.subtitle.word_timings) >= 3
    /\ \E i \in 1..Len(job_result.subtitle.word_timings) :
          /\ job_result.subtitle.word_timings[i].start.d > 1
          /\ ToUpper(job_result.subtitle.word_timings[i].word)
                 # job_result.subtitle.word_timings[i].word

(***************************************************************************)
(* C21: jobs are isolated from one another                                 *)
(***************************************************************************)
\* C21: in every interleaving of the synthesize and generate-video steps of
\* two jobs, the generate-video step of a job reads the cached text data
\* that the job's own synthesize step stored: no step of the other job has
\* overwritten or deleted it in between, even when both jobs were given the
\* same audio filename
C21_JobIsolation ==
    \A j \in WebJobs :
        web_job_pc[j] = "done" => web_job_video[j].cached = web_job_entry[j]

(***************************************************************************)
(* C22: provider fallback of synthesize_with_fallback                      *)
(***************************************************************************)
RECURSIVE LoadedFrom(_, _, _)
\* the providers of a priority list that are loaded, in priority order
LoadedFrom(priorities, providers, i) ==
    IF i > Len(priorities) THEN <<>>
    ELSE (IF priorities[i] \in providers THEN <<priorities[i]>> ELSE <<>>)
         \o LoadedFrom(priorities, providers, i + 1)

\* the loaded providers of the strategy of the call made, in priority order
LoadedPriorities ==
    LoadedFrom(GetStrategyForContent(tts_call.content_analysis).provider_priorities,
               tts_engine.providers, 1)

\* the attempts of the call made that succeeded
Succeeded == {i \in DOMAIN tts_attempts : tts_attempts[i].result.success}

\* C22: synthesize_with_fallback makes its attempts for the strategy's loaded
\* providers in priority order, skipping the providers that are not loaded;
\* it stops at the first successful attempt and returns that attempt's
\* result, and it returns the failed result "All TTS providers failed"
\* exactly when no attempt succeeded (every loaded provider then was tried)
C22_ProviderFallback ==
    tpc = "done" =>
        /\ Len(tts_attempts) <= Len(LoadedPriorities)
        /\ \A i \in DOMAIN tts_attempts : tts_attempts[i].provider = LoadedPriorities[i]
        /\ Succeeded \subseteq {Len(tts_attempts)}
        /\ Succeeded # {} => tts_result = tts_attempts[Len(tts_attempts)].result
        /\ Succeeded = {} =>
               /\ Len(tts_attempts) = Len(LoadedPriorities)
               /\ tts_result = Failure("none", "All TTS providers failed")
        /\ tts_result.error_message = "All TTS providers failed" <=> Succeeded = {}
        /\ tts_result.success <=> Succeeded # {}

\* C22 witness: the first provider of the strategy is not loaded, the attempt
\* for the next one failed, the attempt after it succeeded and was returned,
\* and a loaded provider of lower priority was left untried
C22_Witness ==
    /\ tpc = "done"
    /\ GetStrategyForContent(tts_call.content_analysis).provider_priorities[1]
           \notin tts_engine.providers
    /\ Len(tts_attempts) = 2
    /\ ~tts_attempts[1].result.success
    /\ tts_result.success
    /\ Len(LoadedPriorities) = 3

(***************************************************************************)
(* C29: no provider substitution within an attempt                         *)
(***************************************************************************)
\* C29: every attempt synthesize_with_fallback makes for a provider P either
\* synthesizes with P or fails, and when P rejects the request
\* select_best_provider does not go on to the other loaded providers
C29_NoFallThrough ==
    \A i \in DOMAIN tts_attempts :
        /\ tts_attempts[i].result.provider_used \in {tts_attempts[i].provider, "none"}
        /\ ~tts_attempts[i].selection.fell_through

\* C29 (amended): every attempt synthesize_with_fallback makes for a provider
\* P is answered by P or by no provider: the provider select_best_provider
\* returns for it, and the provider of the result, is P or none
C29_NoSubstitution ==
    \A i \in DOMAIN tts_attempts :
        /\ tts_attempts[i].selection.selected \in {tts_attempts[i].provider, "none"}
        /\ tts_attempts[i].result.provider_used \in {tts_attempts[i].provider, "none"}

\* C29 witness: the provider of an attempt rejected the request, the search
\* went on over the loaded providers, some of them with room for the text,
\* and none was selected
C29_Witness ==
    /\ tpc = "done"
    /\ \E i \in DOMAIN tts_attempts :
        /\ tts_attempts[i].selection.fell_through
        /\ tts_attempts[i].selection.selected = "none"
        /\ tts_attempts[i].result.error_message = "No suitable provider found for request"
        /\ \E q \in tts_engine.providers \ {tts_attempts[i].provider} :
               /\ tts_call.text.stripped_length > 0
               /\ tts_call.text.length <= GetMaxTextLength(q)

(***************************************************************************)
(* C30: a provider named in the synthesize request                         *)
(***************************************************************************)
\* C30: when the request to /api/synthesize names a provider (gtts, edge_tts,
\* coqui or pyttsx3, not "auto"), every synthesis attempt is made with that
\* provider and the audio returned comes from it
C30_ForcedProviderHonoured ==
    (tpc = "done" /\ tts_call.op = "synthesize_speech" /\ tts_call.provider # "auto") =>
        /\ \A i \in DOMAIN tts_attempts : tts_attempts[i].provider = tts_call.provider
        /\ tts_result.success => tts_result.provider_used = tts_call.provider

(***************************************************************************)
(* C23: allocation of the TTS words to the segments                        *)
(***************************************************************************)
\* C23: whenever the TTS words are distributed over a non-empty segment list,
\* every segment is allocated at least one TTS word, and the final segment
\* receives all the words not allocated to earlier segments
C23_NoSegmentStarved ==
    SegmentsCase =>
        \E segments \in {GetWhispers2tSegments(reconcile_anchors.recognizer)} :
        \E allocated \in {Allocated(Split(reconcile_text), segments)} :
            /\ Len(reconcile_timings) = Len(allocated)
            /\ Len(allocated) = Len(Split(reconcile_text))
            /\ \A s \in 1..Len(segments) : \E p \in 1..Len(allocated) :
                   allocated[p].segment = s

(***************************************************************************)
(* C24: proportional re-timing on a word count mismatch                    *)
(***************************************************************************)
\* the word anchors were non-empty and their number differed from the
\* number of TTS words, of which there was at least one
ProportionalCase ==
    /\ rpc = "done"
    /\ reconcile_anchors.kind = "words"
    /\ reconcile_path = "proportional"
    /\ Len(Split(reconcile_text)) > 0

\* C24: on a word count mismatch word i (0-based) of the n TTS words is timed
\* [i/n * D, (i+1)/n * D], D being the audio's total duration in seconds: n
\* contiguous entries that start at 0 and end exactly at D
C24_ProportionalRetiming ==
    ProportionalCase =>
        \E n \in {Len(Split(reconcile_text))} :
            /\ Len(reconcile_timings) = n
            /\ \A i \in 1..n :
                  /\ reconcile_timings[i].word = Split(reconcile_text)[i]
                  /\ reconcile_timings[i].start = RatMul(Rat(i - 1, n), reconcile_duration)
                  /\ reconcile_timings[i].end = RatMul(Rat(i, n), reconcile_duration)
            /\ reconcile_timings[1].start = Whole(0)
            /\ reconcile_timings[n].end = reconcile_duration

(***************************************************************************)
(* C25, C28: the estimates for the words of one segment (specification     *)
(* SpecReconcile, actions AnalyzeAudio and EstimateSegmentWords)            *)
(***************************************************************************)
\* the result is the estimate for the words of one segment
NaturalCase ==
    /\ rpc = "done"
    /\ reconcile_path = "natural"

\* C25: every entry the phonetic estimation produces, for an audio or a
\* segment of positive duration, ends after it starts and lasts at least
\* the floor of 0.1 s
C25_MinimumDuration ==
    (EstimatorCase \/ NaturalCase) =>
        \A i \in DOMAIN reconcile_timings :
            /\ RatLT(reconcile_timings[i].start, reconcile_timings[i].end)
            /\ RatLE(MinWordDuration,
                     RatSub(reconcile_timings[i].end, reconcile_timings[i].start))

\* C28: _estimate_natural_word_timing returns exactly one timing for each
\* word of the segment, in order, all within [seg_start, seg_end]
C28_EveryWordKept ==
    NaturalCase =>
        /\ Len(reconcile_timings) = Len(Split(reconcile_text))
        /\ \A i \in DOMAIN reconcile_timings :
              /\ reconcile_timings[i].word = Split(reconcile_text)[i]
              /\ RatLE(reconcile_anchors.seg_start, reconcile_timings[i].start)
              /\ RatLE(reconcile_timings[i].start, reconcile_timings[i].end)
              /\ RatLE(reconcile_timings[i].end, reconcile_anchors.seg_end)

(***************************************************************************)
(* C26: the guard of the age/gender transformation                         *)
(***************************************************************************)
\* the parenthesised age/gender tokens of a text, left to right
AgeTokens(text) ==
    The({[k \in 1..Len(matches) |-> Slice(text, matches[k].start, matches[k].end)] :
         matches \in {FindIter([kind |-> "age_gender"], text)}})

\* some age indicator occurs in the text as a word of its own (between word
\* boundaries), not inside a longer word
HasCueWord(text) ==
    \E text_lower \in {ToLower(text)} :
        \E indicator \in age_indicators, i \in 1..Len(text_lower) :
            LiteralWordMatchLen(indicator, text_lower, i) > 0

\* the result keeps the age/gender tokens of the original text and records
\* no age/gender transformation
AgeTokensKept ==
    /\ AgeTokens(normalized.tts_text) = AgeTokens(original_text)
    /\ \A k \in 1..Len(normalized.word_mappings) :
           normalized.word_mappings[k].transformation_type # "age_gender"
    /\ \A k \in 1..Len(normalized.transformation_log) :
           normalized.transformation_log[k].type # "age_gender"

WordsOf(word_timings) == [i \in DOMAIN word_timings |-> word_timings[i].word]

\* C27: when a job's generate-video step has written captions for the audio
\* its synthesize step returned, the caption words are, in order, the words
\* of the text that was sent to the TTS engine
C27_CaptionsMatchSpokenText ==
    \A j \in WebJobs :
        (/\ web_job_pc[j] = "done"
         /\ web_job_video[j].success
         /\ web_job_video[j].captions # <<>>) =>
            WordsOf(web_job_video[j].captions) = Split(web_job_entry[j].tts_text)

====
